---- MODULE Spec2Model ----
(***************************************************************************)
(* supabase-worktree: port allocation, project-id derivation, config and   *)
(* env-file rewriting and the global instance registry.                    *)
(*                                                                         *)
(* Text is modelled as sequences of tokens.  A decimal number is the       *)
(* sequence of its digit characters; the four replaceable host literals    *)
(* are single tokens (no host literal contains ':' or a digit run that     *)
(* could make two occurrences of host:port overlap, so scanning tokens     *)
(* finds the same matches as scanning characters).                         *)
(***************************************************************************)
EXTENDS Integers, Sequences, FiniteSets, TLC

VARIABLES
    \* ---- pure-function harnesses: arguments and results -----------------
    allocIn,        \* arguments of allocatePortBase
    allocOut,       \* its outcome
    configIn,       \* template + allocator inputs + projectId for generateConfig
    configOut,      \* the generated config
    envIn,          \* content + portMap for replacePortsInEnvContent
    envOut,         \* the rewritten content
    idIn,           \* options of deriveProjectId
    idOut,          \* the derived id
    \* ---- the machine's persistent state ---------------------------------
    profile,        \* per worktree: package.json config, template, git facts
    pathExists,     \* per worktree path: does the directory exist
    registryExists, \* does ~/.sb-worktrees.json exist
    registry,       \* its parsed content: a sequence of WorktreeEntry
    configToml,     \* per worktree: the generated config.toml
    envFile,        \* per worktree, per env file: content
    envBackup,      \* per worktree, per env file: content of <file>.sb-backup
    running,        \* per worktree: is the supabase stack up
    \* ---- the interactive session process --------------------------------
    activeSessionRoot, \* the root of the instance started in this session
    session,        \* the processes in flight: the session's loop, signal
                    \* handler and cleanups, or concurrent start invocations
    \* ---- observation of the last operation ------------------------------
    last            \* what the last operation was, returned and started from

pureVars == <<allocIn, allocOut, configIn, configOut, envIn, envOut, idIn, idOut>>
diskVars == <<profile, pathExists, registryExists, registry, configToml,
              envFile, envBackup, running, activeSessionRoot, session>>
vars == <<allocIn, allocOut, configIn, configOut, envIn, envOut, idIn, idOut,
          profile, pathExists, registryExists, registry, configToml,
          envFile, envBackup, running, activeSessionRoot, session, last>>

-----------------------------------------------------------------------------
(* Generic sequence helpers *)

Range(s) == {s[i] : i \in 1..Len(s)}

Min(S) == CHOOSE m \in S : \A x \in S : m <= x

-----------------------------------------------------------------------------
(* Decimal strings *)

Digits == <<"0", "1", "2", "3", "4", "5", "6", "7", "8", "9">>
DigitSet == Range(Digits)

DigitValues ==
    [c \in DigitSet |-> (CHOOSE i \in 1..10 : Digits[i] = c) - 1]

DigitVal(c) == DigitValues[c]

RECURSIVE NumberToString(_)
\* String(n) for a non-negative integer
NumberToString(n) ==
    IF n < 10 THEN <<Digits[n + 1]>>
    ELSE NumberToString(n \div 10) \o <<Digits[(n % 10) + 1]>>

RECURSIVE parseInt(_)
\* parseInt(digits, 10) for a non-empty run of digits
parseInt(d) ==
    IF Len(d) = 1 THEN DigitVal(d[1])
    ELSE parseInt(SubSeq(d, 1, Len(d) - 1)) * 10 + DigitVal(d[Len(d)])

-----------------------------------------------------------------------------
(* lib/constants *)

DEFAULT_PORT_BLOCK_SIZE == 100
MAX_PORT == 65535
REPLACEABLE_HOSTS == <<"localhost", "127.0.0.1", "0.0.0.0", "host.docker.internal">>

-----------------------------------------------------------------------------
(* lib/ports: allocatePortBase *)

\* mutant of conflicts: the interval test made inclusive at both ends
conflictsInclusive(allocatedBases, candidate, blockSize) ==
    \E i \in 1..Len(allocatedBases) :
        /\ candidate <= allocatedBases[i] + blockSize
        /\ allocatedBases[i] <= candidate + blockSize

\* the .some() predicate of allocatePortBase
conflicts(allocatedBases, candidate, blockSize) ==
    \E i \in 1..Len(allocatedBases) :
        /\ candidate < allocatedBases[i] + blockSize
        /\ allocatedBases[i] < candidate + blockSize

RECURSIVE allocateFrom(_, _, _)
\* the while loop of allocatePortBase, entered with the current candidate
allocateFrom(allocatedBases, candidate, blockSize) ==
    IF candidate <= MAX_PORT - blockSize
    THEN IF ~conflicts(allocatedBases, candidate, blockSize)
         THEN [threw |-> FALSE, value |-> candidate]
         ELSE allocateFrom(allocatedBases, candidate + blockSize, blockSize)
    ELSE [threw |-> TRUE, value |-> 0]

allocatePortBase(allocatedBases, portBase, blockSize) ==
    allocateFrom(allocatedBases, portBase, blockSize)

-----------------------------------------------------------------------------
(* lib/ports: extractPorts, getPortBase, buildPortMap *)

(* A config.toml text is a sequence of lines.  A line is one of             *)
(*   [section]             kind "section", key = the section name           *)
(*   key = <digits> [# c]  kind "assign",  value = the digits, tail "" or   *)
(*                         "#" (end of line, or a trailing comment)         *)
(*   project_id = "..."    kind "project_id", value = the id                *)
(*   anything else         kind "text"                                      *)
Section(name) == [kind |-> "section", key |-> name, value |-> <<>>, tail |-> ""]
Assign(key, digits, tail) == [kind |-> "assign", key |-> key, value |-> digits, tail |-> tail]
ProjectIdLine(id) == [kind |-> "project_id", key |-> "project_id", value |-> id, tail |-> ""]
Text(t) == [kind |-> "text", key |-> t, value |-> <<>>, tail |-> ""]

\* the keys matched by /^(\w*port\w*)\s*=\s*(\d+)/i among the keys used here
PortKeys == {"port", "shadow_port", "smtp_port", "inspector_port", "PORT"}

RECURSIVE insertByValue(_, _)
\* stable insertion of p behind every element whose value is <= p.value
insertByValue(sorted, p) ==
    IF sorted = <<>> THEN <<p>>
    ELSE IF Head(sorted).value <= p.value
         THEN <<Head(sorted)>> \o insertByValue(Tail(sorted), p)
         ELSE <<p>> \o sorted

RECURSIVE sortByValue(_)
\* ports.sort((a, b) => a.value - b.value), a stable sort
sortByValue(ports) ==
    IF ports = <<>> THEN <<>>
    ELSE insertByValue(sortByValue(SubSeq(ports, 1, Len(ports) - 1)), ports[Len(ports)])

RECURSIVE scanLines(_, _, _)
\* the for loop of extractPorts: the section cursor and the ports pushed
scanLines(lines, currentSection, ports) ==
    IF lines = <<>> THEN ports
    ELSE LET line == Head(lines) IN
         IF line.kind = "section"
         THEN scanLines(Tail(lines), line.key, ports)
         ELSE IF line.kind = "assign" /\ line.key \in PortKeys
              THEN scanLines(Tail(lines), currentSection,
                             Append(ports, [key |-> line.key,
                                            section |-> currentSection,
                                            value |-> parseInt(line.value),
                                            offset |-> 0]))
              ELSE scanLines(Tail(lines), currentSection, ports)

extractPorts(tomlContent) ==
    LET ports == scanLines(tomlContent, "", <<>>) IN
    IF Len(ports) = 0 THEN <<>>
    ELSE LET minPort == Min({ports[i].value : i \in 1..Len(ports)}) IN
         sortByValue([i \in 1..Len(ports) |->
                        [ports[i] EXCEPT !.offset = ports[i].value - minPort]])

\* defined for a non-empty list (the caller throws on an empty one first)
getPortBase(extractedPorts) ==
    Min({extractedPorts[i].value : i \in 1..Len(extractedPorts)})

RECURSIVE buildPortMapFrom(_, _, _)
buildPortMapFrom(extractedPorts, newBase, map) ==
    IF extractedPorts = <<>> THEN map
    ELSE LET port == Head(extractedPorts)
             newPort == newBase + port.offset
         IN buildPortMapFrom(Tail(extractedPorts), newBase,
                (NumberToString(port.value) :> NumberToString(newPort)) @@ map)

\* a buildPortMap that leaves out the ports the new base does not move
buildPortMapChangedOnly(extractedPorts, newBase) ==
    buildPortMapFrom(SelectSeq(extractedPorts,
                               LAMBDA port : newBase + port.offset # port.value),
                     newBase, <<>>)

\* a port map is a function from old-port strings to new-port strings
buildPortMap(extractedPorts, newBase) ==
    buildPortMapFrom(extractedPorts, newBase, <<>>)

RECURSIVE ascending(_)
ascending(numbers) ==
    IF numbers = {} THEN <<>>
    ELSE LET n == Min(numbers) IN <<n>> \o ascending(numbers \ {n})

\* the keys of a port map are canonical decimal strings (buildPortMap makes
\* them with String(n)), which an object enumerates in ascending numeric order
keysAscending(keys) ==
    LET sorted == ascending({parseInt(k) : k \in keys}) IN
    [i \in 1..Len(sorted) |-> NumberToString(sorted[i])]

\* Object.entries(portMap): integer-like keys are enumerated in ascending
\* numeric order, whatever the insertion order
ObjectEntries(portMap) ==
    LET ks == keysAscending(DOMAIN portMap) IN
    [i \in 1..Len(ks) |-> <<ks[i], portMap[ks[i]]>>]

-----------------------------------------------------------------------------
(* lib/template: generateConfig *)

\* content.replaceAll(/(=\s*)OLD(\s*(?:#|$|\n))/g, "$1NEW$2"): every
\* assignment whose whole value is OLD, whatever its key
replaceAssigned(content, oldPort, newPort) ==
    [i \in 1..Len(content) |->
        IF content[i].kind = "assign" /\ content[i].value = oldPort
        THEN [content[i] EXCEPT !.value = newPort]
        ELSE content[i]]

RECURSIVE replaceEntries(_, _)
\* the for loop of generateConfig over Object.entries(portMap)
replaceEntries(content, entries) ==
    IF entries = <<>> THEN content
    ELSE LET oldPort == Head(entries)[1]
             newPort == Head(entries)[2]
         IN IF oldPort = newPort
            THEN replaceEntries(content, Tail(entries))
            ELSE replaceEntries(replaceAssigned(content, oldPort, newPort), Tail(entries))

\* content.replace(/^(project_id\s*=\s*).*$/m, ...): the first such line only
setProjectId(content, projectId) ==
    LET hits == {i \in 1..Len(content) : content[i].kind = "project_id"} IN
    IF hits = {} THEN content
    ELSE [content EXCEPT ![Min(hits)].value = projectId]

\* the text generateConfig writes to outputPath
generateConfig(template, portMap, projectId) ==
    setProjectId(replaceEntries(template, ObjectEntries(portMap)), projectId)

-----------------------------------------------------------------------------
(* lib/env: replacePortsInEnvContent *)

startsWith(s, pattern) ==
    Len(s) >= Len(pattern) /\ \A i \in 1..Len(pattern) : s[i] = pattern[i]

RECURSIVE replaceAll(_, _, _)
\* String.prototype.replaceAll with a literal pattern: left to right, the
\* matches do not overlap and replaced text is not scanned again
replaceAll(s, pattern, replacement) ==
    IF s = <<>> THEN <<>>
    ELSE IF startsWith(s, pattern)
         THEN replacement \o replaceAll(SubSeq(s, Len(pattern) + 1, Len(s)),
                                        pattern, replacement)
         ELSE <<Head(s)>> \o replaceAll(Tail(s), pattern, replacement)

\* mutant of replaceHostPort: the port is replaced wherever it stands
replaceBarePort(result, host, oldPort, newPort) ==
    replaceAll(result, oldPort, newPort)

\* result.replaceAll(`${host}:${oldPort}`, `${host}:${newPort}`)
replaceHostPort(result, host, oldPort, newPort) ==
    replaceAll(result, <<host, ":">> \o oldPort, <<host, ":">> \o newPort)

RECURSIVE replaceForHosts(_, _, _, _)
\* the inner loop over REPLACEABLE_HOSTS
replaceForHosts(result, hosts, oldPort, newPort) ==
    IF hosts = <<>> THEN result
    ELSE replaceForHosts(replaceHostPort(result, Head(hosts), oldPort, newPort),
                         Tail(hosts), oldPort, newPort)

RECURSIVE replaceForEntries(_, _)
\* the outer loop over Object.entries(portMap)
replaceForEntries(result, entries) ==
    IF entries = <<>> THEN result
    ELSE LET oldPort == Head(entries)[1]
             newPort == Head(entries)[2]
         IN IF oldPort = newPort
            THEN replaceForEntries(result, Tail(entries))
            ELSE replaceForEntries(
                     replaceForHosts(result, REPLACEABLE_HOSTS, oldPort, newPort),
                     Tail(entries))

replacePortsInEnvContent(content, portMap) ==
    replaceForEntries(content, ObjectEntries(portMap))

-----------------------------------------------------------------------------
(* lib/env: env files and their .sb-backup siblings *)

(* The env files of one project root: file is a function from the file     *)
(* names to their content, backup a function from the same names to the    *)
(* state of <name>.sb-backup.                                              *)
NoBackup == [exists |-> FALSE, content |-> <<>>]

\* backupEnvFile: copyFile(envPath, envPath + ENV_BACKUP_SUFFIX)
backupEnvFile(st, f) ==
    [st EXCEPT !.backup[f] = [exists |-> TRUE, content |-> st.file[f]]]

\* mutant of restoreEnvFile: the backup is copied back but not unlinked
restoreEnvFileKeepBackup(st, f) ==
    IF ~st.backup[f].exists THEN st
    ELSE [st EXCEPT !.file[f] = st.backup[f].content,
                    !.restored = Append(st.restored, f)]

\* restoreEnvFile, with the caller's restored.push on a true result
restoreEnvFile(st, f) ==
    IF ~st.backup[f].exists THEN st
    ELSE [st EXCEPT !.file[f] = st.backup[f].content,
                    !.backup[f] = NoBackup,
                    !.restored = Append(st.restored, f)]

RECURSIVE updateEachWriteFirst(_, _, _)
\* mutant of updateEach: the file is overwritten before it is backed up
updateEachWriteFirst(st, envFiles, portMap) ==
    IF envFiles = <<>> THEN st
    ELSE LET f == Head(envFiles)
             content == st.file[f]
             updated == replacePortsInEnvContent(content, portMap)
         IN IF updated # content
            THEN updateEachWriteFirst(
                    backupEnvFile([st EXCEPT !.file[f] = updated,
                                             !.modified = Append(st.modified, f)], f),
                    Tail(envFiles), portMap)
            ELSE updateEachWriteFirst(st, Tail(envFiles), portMap)

RECURSIVE updateEach(_, _, _)
\* the for loop of updateEnvFiles over the discovered files
updateEach(st, envFiles, portMap) ==
    IF envFiles = <<>> THEN st
    ELSE LET f == Head(envFiles)
             content == st.file[f]
             updated == replacePortsInEnvContent(content, portMap)
         IN IF updated # content
            THEN updateEach(
                    [backupEnvFile(st, f) EXCEPT !.file[f] = updated,
                                                 !.modified = Append(st.modified, f)],
                    Tail(envFiles), portMap)
            ELSE updateEach(st, Tail(envFiles), portMap)

\* updateEnvFiles on the discovered files: the new files and backups and
\* the list of modified files it returns
updateEnvFiles(file, backup, envFiles, portMap) ==
    updateEach([file |-> file, backup |-> backup, modified |-> <<>>, restored |-> <<>>],
               envFiles, portMap)

RECURSIVE restoreEach(_, _)
\* the for loop of restoreAllEnvFiles over the discovered files
restoreEach(st, envFiles) ==
    IF envFiles = <<>> THEN st
    ELSE restoreEach(restoreEnvFile(st, Head(envFiles)), Tail(envFiles))

restoreAllEnvFiles(file, backup, envFiles) ==
    restoreEach([file |-> file, backup |-> backup, modified |-> <<>>, restored |-> <<>>],
                envFiles)

-----------------------------------------------------------------------------
(* lib/template: deriveProjectId, enforceMaxLength *)

(* A name is a sequence of characters. *)
Upper == <<"A", "B", "C", "D", "E", "F", "G", "H", "I", "J", "K", "L", "M",
           "N", "O", "P", "Q", "R", "S", "T", "U", "V", "W", "X", "Y", "Z">>
Lower == <<"a", "b", "c", "d", "e", "f", "g", "h", "i", "j", "k", "l", "m",
           "n", "o", "p", "q", "r", "s", "t", "u", "v", "w", "x", "y", "z">>
HexDigits == <<"0", "1", "2", "3", "4", "5", "6", "7", "8", "9",
               "a", "b", "c", "d", "e", "f">>

PROJECT_ID_PREFIX == <<"s", "b", "w", "t", "-">>
MAX_PROJECT_ID_LENGTH == 40
HASH_LENGTH == 8

\* the absent worktreeName (null): no name is this sequence
Null == <<"null", "null">>

toLowerCase(s) ==
    [i \in 1..Len(s) |->
        IF s[i] \in Range(Upper)
        THEN Lower[CHOOSE k \in 1..26 : Upper[k] = s[i]]
        ELSE s[i]]

\* .replace(/[^a-z0-9-]/g, "-")
replaceDisallowed(s) ==
    [i \in 1..Len(s) |->
        IF s[i] \in Range(Lower) \cup DigitSet \cup {"-"} THEN s[i] ELSE "-"]

RECURSIVE collapseHyphens(_)
\* .replace(/-+/g, "-")
collapseHyphens(s) ==
    IF Len(s) <= 1 THEN s
    ELSE IF s[1] = "-" /\ s[2] = "-" THEN collapseHyphens(Tail(s))
         ELSE <<s[1]>> \o collapseHyphens(Tail(s))

\* .replace(/^-|-$/g, ""): one leading and one trailing hyphen
trimHyphens(s) ==
    LET a == IF s # <<>> /\ s[1] = "-" THEN Tail(s) ELSE s
    IN IF a # <<>> /\ a[Len(a)] = "-" THEN SubSeq(a, 1, Len(a) - 1) ELSE a

\* .replace(/-$/g, "")
trimTrailingHyphen(s) ==
    IF s # <<>> /\ s[Len(s)] = "-" THEN SubSeq(s, 1, Len(s) - 1) ELSE s

sanitize(body) ==
    trimHyphens(collapseHyphens(replaceDisallowed(toLowerCase(body))))

\* String.prototype.slice(0, n)
sliceTo(s, n) ==
    IF n >= 0 THEN SubSeq(s, 1, IF n < Len(s) THEN n ELSE Len(s))
    ELSE SubSeq(s, 1, IF Len(s) + n > 0 THEN Len(s) + n ELSE 0)

CharCode(c) ==
    IF c \in Range(Lower) THEN CHOOSE k \in 1..26 : Lower[k] = c
    ELSE IF c \in DigitSet THEN 27 + DigitVal(c)
    ELSE 37

RECURSIVE digestOf(_, _, _)
digestOf(s, h, mult) ==
    IF s = <<>> THEN h
    ELSE digestOf(Tail(s), (h * mult + CharCode(Head(s))) % 65536, mult)

RECURSIVE hexOf(_, _)
hexOf(n, width) ==
    IF width = 0 THEN <<>>
    ELSE hexOf(n \div 16, width - 1) \o <<HexDigits[(n % 16) + 1]>>

\* createHash("sha256").update(rawBody).digest("hex").slice(0, 8): SHA-256
\* is stood for by a fixed function of the body onto 8 hex digits
hash8(rawBody) ==
    hexOf(digestOf(rawBody, 7, 31), HASH_LENGTH \div 2)
      \o hexOf(digestOf(rawBody, 11, 17), HASH_LENGTH \div 2)

\* mutant of enforceMaxLength: the body is cut without leaving room for the
\* extra suffix
enforceMaxLengthNoSuffixRoom(fullId, rawBody, extraSuffix) ==
    IF Len(fullId) <= MAX_PROJECT_ID_LENGTH THEN fullId
    ELSE LET hash == hash8(rawBody)
             availableForBody == MAX_PROJECT_ID_LENGTH - Len(PROJECT_ID_PREFIX) - 1
                                 - Len(hash)
             truncatedBody == trimTrailingHyphen(sliceTo(sanitize(rawBody), availableForBody))
         IN PROJECT_ID_PREFIX \o truncatedBody \o <<"-">> \o hash \o extraSuffix

enforceMaxLength(fullId, rawBody, extraSuffix) ==
    IF Len(fullId) <= MAX_PROJECT_ID_LENGTH THEN fullId
    ELSE LET hash == hash8(rawBody)
             availableForBody == MAX_PROJECT_ID_LENGTH - Len(PROJECT_ID_PREFIX) - 1
                                 - Len(hash) - Len(extraSuffix)
             truncatedBody == trimTrailingHyphen(sliceTo(sanitize(rawBody), availableForBody))
         IN PROJECT_ID_PREFIX \o truncatedBody \o <<"-">> \o hash \o extraSuffix

\* `-${n}`
suffixOf(n) == <<"-">> \o NumberToString(n)

RECURSIVE numberedFrom(_, _, _, _)
\* the while (true) loop of deriveProjectId, entered with the current n
numberedFrom(candidate, sanitized, existingIds, n) ==
    LET suffix == suffixOf(n)
        numbered == enforceMaxLength(candidate \o suffix, sanitized, suffix)
    IN IF numbered \notin Range(existingIds) THEN numbered
       ELSE numberedFrom(candidate, sanitized, existingIds, n + 1)

\* mutant of deriveProjectId: the candidate is returned without the
\* uniqueness loop
deriveProjectIdNoLoop(branch, worktreeName, existingIds) ==
    LET body == IF worktreeName # Null THEN worktreeName ELSE branch
        sanitized == sanitize(body)
    IN enforceMaxLength(PROJECT_ID_PREFIX \o sanitized, sanitized, <<>>)

\* mutant of deriveProjectId: the numbering starts at -1
deriveProjectIdFromOne(branch, worktreeName, existingIds) ==
    LET body == IF worktreeName # Null THEN worktreeName ELSE branch
        sanitized == sanitize(body)
        candidate == enforceMaxLength(PROJECT_ID_PREFIX \o sanitized, sanitized, <<>>)
    IN IF candidate \notin Range(existingIds) THEN candidate
       ELSE numberedFrom(candidate, sanitized, existingIds, 1)

deriveProjectId(branch, worktreeName, existingIds) ==
    LET body == IF worktreeName # Null THEN worktreeName ELSE branch
        sanitized == sanitize(body)
        candidate == enforceMaxLength(PROJECT_ID_PREFIX \o sanitized, sanitized, <<>>)
    IN IF candidate \notin Range(existingIds) THEN candidate
       ELSE numberedFrom(candidate, sanitized, existingIds, 2)

-----------------------------------------------------------------------------
(* lib/registry: operations on the parsed content of ~/.sb-worktrees.json *)

\* entries.filter((e) => e.worktreePath !== worktreePath)
withoutPath(entries, worktreePath) ==
    SelectSeq(entries, LAMBDA e : e.worktreePath # worktreePath)

\* getWorktreeEntry: is there an entry for the path (entries.find)
hasWorktreeEntry(entries, worktreePath) ==
    \E i \in 1..Len(entries) : entries[i].worktreePath = worktreePath

getAllocatedPortBases(entries) == [i \in 1..Len(entries) |-> entries[i].portBase]

getAllocatedProjectIds(entries) == [i \in 1..Len(entries) |-> entries[i].projectId]

\* mutant of registerWorktree: the entry is appended without the filter
registerWorktreeAppendOnly(entries, entry) == Append(entries, entry)

\* mutant of registerWorktree: an entry whose base is already in the array
\* read is moved one default block up before it is appended
registerWorktreeRebased(entries, entry) ==
    LET others == withoutPath(entries, entry.worktreePath) IN
    Append(others,
           IF \E i \in 1..Len(others) : others[i].portBase = entry.portBase
           THEN [entry EXCEPT !.portBase = @ + DEFAULT_PORT_BLOCK_SIZE]
           ELSE entry)

\* registerWorktree: the array handed to writeRegistry
registerWorktree(entries, entry) ==
    Append(withoutPath(entries, entry.worktreePath), entry)

-----------------------------------------------------------------------------
(* Idle values of the variable groups a specification does not use *)

AllocIdle == allocIn = <<>> /\ allocOut = <<>>
ConfigIdle == configIn = <<>> /\ configOut = <<>>
EnvIdle == envIn = <<>> /\ envOut = <<>>
IdIdle == idIn = <<>> /\ idOut = <<>>
DiskIdle ==
    /\ profile = <<>> /\ pathExists = <<>> /\ registryExists = FALSE
    /\ registry = <<>> /\ configToml = <<>> /\ envFile = <<>>
    /\ envBackup = <<>> /\ running = <<>> /\ last = <<>>
    /\ activeSessionRoot = "null" /\ session = <<>>

-----------------------------------------------------------------------------
(* SpecAlloc: allocatePortBase applied to bounded inputs *)

MaxOccupied == 2

AllocBaseChoices == {54321, 65200, 65250, 65300, 65400, 65430}
AllocStartChoices == {54321, 65200, 65300, 65435, 65500}
AllocBlockChoices == {1, 50, 100, 101}

SeqsUpTo(S, n) == UNION {[1..k -> S] : k \in 0..n}

AllocInit ==
    /\ allocIn \in [allocatedBases : SeqsUpTo(AllocBaseChoices, MaxOccupied),
                     portBase : AllocStartChoices,
                     blockSize : AllocBlockChoices]
    /\ allocOut = [done |-> FALSE, threw |-> FALSE, value |-> 0]
    /\ ConfigIdle /\ EnvIdle /\ IdIdle /\ DiskIdle

CallAllocatePortBase ==
    /\ ~allocOut.done
    /\ allocOut' = [done |-> TRUE] @@
                   allocatePortBase(allocIn.allocatedBases, allocIn.portBase,
                                    allocIn.blockSize)
    /\ UNCHANGED <<allocIn, configIn, configOut, envIn, envOut, idIn, idOut,
                   diskVars, last>>

AllocNext == CallAllocatePortBase

SpecAlloc == AllocInit /\ [][AllocNext]_vars

\* the candidates startBase + k*blockSize, k >= 0, that the claim calls free:
\* at most 65535 - blockSize and with [c, c+blockSize) disjoint from every
\* occupied [e, e+blockSize)
FreeSteps(in) ==
    {k \in 0..((MAX_PORT - in.portBase) \div in.blockSize + 1) :
        LET c == in.portBase + k * in.blockSize IN
        /\ c <= MAX_PORT - in.blockSize
        /\ \A i \in 1..Len(in.allocatedBases) :
              (c..(c + in.blockSize - 1))
                \cap (in.allocatedBases[i]..(in.allocatedBases[i] + in.blockSize - 1))
                = {}}

\* C2: allocatePortBase returns startBase + k*blockSize for the smallest free
\* k >= 0 and throws exactly when no candidate is free.
C2_AllocSmallestFree ==
    allocOut.done =>
        LET K == FreeSteps(allocIn) IN
        IF K = {} THEN allocOut.threw
        ELSE /\ ~allocOut.threw
             /\ allocOut.value = allocIn.portBase + Min(K) * allocIn.blockSize

\* C2 witness: startBase itself is occupied and a later block is returned
C2_Witness ==
    /\ allocOut.done /\ ~allocOut.threw
    /\ allocIn.portBase \in Range(allocIn.allocatedBases)
    /\ allocOut.value >= allocIn.portBase + 2 * allocIn.blockSize

\* C2 witness of the failure branch: every candidate is occupied
C2_WitnessExhausted ==
    /\ allocOut.done /\ allocOut.threw
    /\ allocIn.portBase <= MAX_PORT - allocIn.blockSize

-----------------------------------------------------------------------------
(* SpecConfig: the allocation and generateConfig steps of startCommand      *)
(* applied to bounded templates and occupied bases                          *)

TemplateDefault ==
    << ProjectIdLine("my-app"),
       Section("api"), Assign("port", NumberToString(54321), ""),
       Assign("max_rows", NumberToString(1000), ""),
       Section("db"), Assign("port", NumberToString(54322), "#"),
       Assign("shadow_port", NumberToString(54320), ""),
       Text("# port = 54329") >>

TemplateSpread ==
    << ProjectIdLine("my-app"),
       Section("api"), Assign("port", NumberToString(54321), ""),
       Section("analytics"), Assign("port", NumberToString(54421), "") >>

TemplateDense ==
    << Section("api"), Assign("port", NumberToString(54321), ""),
       Section("db"), Assign("port", NumberToString(54322), ""),
       Section("studio"), Assign("port", NumberToString(54323), ""),
       Section("auth"), Assign("jwt_expiry", NumberToString(54321), "") >>

TemplateNoPorts ==
    << ProjectIdLine("my-app"), Section("auth"),
       Assign("jwt_expiry", NumberToString(3600), "") >>

Templates == {TemplateDefault, TemplateSpread, TemplateDense, TemplateNoPorts}

ConfigBaseChoices == {54320, 54321, 54323, 54421}
ConfigBlockChoices == {2, DEFAULT_PORT_BLOCK_SIZE}

ConfigInit ==
    /\ configIn \in [template : Templates,
                     allocatedBases : SeqsUpTo(ConfigBaseChoices, MaxOccupied),
                     blockSize : ConfigBlockChoices,
                     projectId : {"sbwt-main"}]
    /\ configOut = [done |-> FALSE, threw |-> FALSE, newBase |-> 0,
                    portMap |-> <<>>, content |-> <<>>]
    /\ AllocIdle /\ EnvIdle /\ IdIdle /\ DiskIdle

\* steps 4, 5 and 7 of startCommand on the template text
CallGenerateConfig ==
    /\ ~configOut.done
    /\ LET extractedPorts == extractPorts(configIn.template) IN
       IF Len(extractedPorts) = 0
       THEN configOut' = [configOut EXCEPT !.done = TRUE, !.threw = TRUE]
       ELSE LET alloc == allocatePortBase(configIn.allocatedBases,
                                          getPortBase(extractedPorts),
                                          configIn.blockSize)
                portMap == buildPortMap(extractedPorts, alloc.value)
            IN IF alloc.threw
               THEN configOut' = [configOut EXCEPT !.done = TRUE, !.threw = TRUE]
               ELSE configOut' = [done |-> TRUE, threw |-> FALSE,
                                  newBase |-> alloc.value,
                                  portMap |-> portMap,
                                  content |-> generateConfig(configIn.template, portMap,
                                                             configIn.projectId)]
    /\ UNCHANGED <<allocIn, allocOut, configIn, envIn, envOut, idIn, idOut,
                   diskVars, last>>

ConfigNext == CallGenerateConfig

SpecConfig == ConfigInit /\ [][ConfigNext]_vars

\* the port-valued fields of a template: the lines extractPorts reads
PortFields(template) ==
    {i \in 1..Len(template) : template[i].kind = "assign" /\ template[i].key \in PortKeys}

MinDeclared(template) ==
    Min({parseInt(template[i].value) : i \in PortFields(template)})

\* C3: every port field that held v in the template holds
\* newBase + (v - minimum declared port) in the generated config.
C3_ConfigHoldsMappedPorts ==
    (configOut.done /\ ~configOut.threw) =>
        \A i \in PortFields(configIn.template) :
            configOut.content[i].value =
                NumberToString(configOut.newBase
                               + (parseInt(configIn.template[i].value)
                                  - MinDeclared(configIn.template)))

\* C3, second half: fields that declare different ports in the template
\* never end up with the same port.
C3_DistinctPortsStayDistinct ==
    (configOut.done /\ ~configOut.threw) =>
        \A i, j \in PortFields(configIn.template) :
            configIn.template[i].value # configIn.template[j].value
                => configOut.content[i].value # configOut.content[j].value

-----------------------------------------------------------------------------
(* SpecEnvContent: replacePortsInEnvContent applied to bounded contents     *)
(* and port maps                                                            *)

MaxContentLen == 4

EnvTokens == {"localhost", "127.0.0.1", "example.com", ":", "1", "2"}
EnvOldPorts == {<<"1">>, <<"2">>}
EnvNewPorts == {<<"1">>, <<"2">>, <<"3">>}
EnvPortMaps ==
    UNION {[K -> EnvNewPorts] : K \in SUBSET EnvOldPorts}
      \cup {(<<"1">> :> <<"3">>) @@ (<<"1", "2">> :> <<"2", "1">>)}

EnvInit ==
    /\ envIn \in [content : SeqsUpTo(EnvTokens, MaxContentLen), portMap : EnvPortMaps]
    /\ envOut = [done |-> FALSE, content |-> <<>>]
    /\ AllocIdle /\ ConfigIdle /\ IdIdle /\ DiskIdle

CallReplacePorts ==
    /\ ~envOut.done
    /\ envOut' = [done |-> TRUE,
                  content |-> replacePortsInEnvContent(envIn.content, envIn.portMap)]
    /\ UNCHANGED <<allocIn, allocOut, configIn, configOut, envIn, idIn, idOut,
                   diskVars, last>>

EnvNext == CallReplacePorts

SpecEnvContent == EnvInit /\ [][EnvNext]_vars

HostSet == Range(REPLACEABLE_HOSTS)

\* the entries of the map that ask for a change and match at the head of s,
\* behind an allow-listed host and a colon
MatchingKeys(s, portMap) ==
    {k \in DOMAIN portMap :
        /\ portMap[k] # k
        /\ Len(s) >= 2 /\ s[1] \in HostSet /\ s[2] = ":"
        /\ startsWith(SubSeq(s, 3, Len(s)), k)}

RECURSIVE RewriteOnce(_, _)
\* the content with every occurrence of <host>:<old> of the ORIGINAL text
\* replaced by <host>:portMap[old], replaced text never being looked at again
\* (of two keys matching at one place, the one enumerated first is taken)
RewriteOnce(s, portMap) ==
    IF s = <<>> THEN <<>>
    ELSE LET ks == MatchingKeys(s, portMap) IN
         IF ks = {}
         THEN <<Head(s)>> \o RewriteOnce(Tail(s), portMap)
         ELSE LET k == CHOOSE x \in ks : \A y \in ks : parseInt(x) <= parseInt(y)
              IN <<s[1], ":">> \o portMap[k]
                   \o RewriteOnce(SubSeq(s, 3 + Len(k), Len(s)), portMap)

\* C4: every occurrence of <host>:<old> is replaced by <host>:portMap[old],
\* each occurrence exactly once; text produced by one entry's replacement is
\* not rewritten by another entry.
C4_EachOccurrenceRewrittenOnce ==
    envOut.done => envOut.content = RewriteOnce(envIn.content, envIn.portMap)

RECURSIVE DropDigits(_)
DropDigits(s) ==
    IF s # <<>> /\ Head(s) \in DigitSet THEN DropDigits(Tail(s)) ELSE s

RECURSIVE MaskHostPorts(_)
\* the text with every number that immediately follows an allow-listed host
\* and a colon blanked out
MaskHostPorts(s) ==
    IF s = <<>> THEN <<>>
    ELSE IF Len(s) >= 3 /\ s[1] \in HostSet /\ s[2] = ":" /\ s[3] \in DigitSet
         THEN <<s[1], ":", "<port>">> \o MaskHostPorts(DropDigits(SubSeq(s, 3, Len(s))))
         ELSE <<Head(s)>> \o MaskHostPorts(Tail(s))

-----------------------------------------------------------------------------
(* SpecEnvFiles: updateEnvFiles and restoreAllEnvFiles on the env files of  *)
(* one project root, with arbitrary port maps                               *)

EnvRoot == "/repo/main"

\* discoverEnvFiles: the matching files, deduplicated and sorted
EnvFileNames == <<".env", ".env.local">>

EnvFileContents ==
    { <<>>,
      <<"localhost", ":", "1">>,
      <<"KEY", "=", "1">>,
      <<"localhost", ":", "1", "/", "127.0.0.1", ":", "2">>,
      <<"example.com", ":", "2">>,
      <<"0.0.0.0", ":", "3">> }

(* last: the last call and the call before it, the lists the last update    *)
(* and the last restore returned, the number of updates since the backups   *)
(* were last all absent (2 standing for two or more), and the files'        *)
(* content at that moment.                                                  *)
EnvFilesInit ==
    /\ envFile \in [{EnvRoot} -> [Range(EnvFileNames) -> EnvFileContents]]
    /\ envBackup = [w \in {EnvRoot} |-> [f \in Range(EnvFileNames) |-> NoBackup]]
    /\ last = [op |-> "none", prev |-> "none", modified |-> <<>>, restored |-> <<>>,
               updates |-> 0, pristine |-> envFile[EnvRoot]]
    /\ profile = <<>> /\ pathExists = <<>> /\ registryExists = FALSE
    /\ registry = <<>> /\ configToml = <<>> /\ running = <<>>
    /\ activeSessionRoot = "null" /\ session = <<>>
    /\ AllocIdle /\ ConfigIdle /\ EnvIdle /\ IdIdle

CallUpdateEnvFiles(portMap) ==
    LET st == updateEnvFiles(envFile[EnvRoot], envBackup[EnvRoot], EnvFileNames, portMap)
        fresh == last.op # "update"
    IN
    /\ envFile' = [envFile EXCEPT ![EnvRoot] = st.file]
    /\ envBackup' = [envBackup EXCEPT ![EnvRoot] = st.backup]
    /\ last' = [last EXCEPT !.op = "update", !.prev = last.op,
                            !.modified = st.modified,
                            !.updates = IF fresh THEN 1 ELSE 2,
                            !.pristine = IF fresh THEN envFile[EnvRoot] ELSE @]
    /\ UNCHANGED <<pureVars, profile, pathExists, registryExists, registry,
                   configToml, running, activeSessionRoot, session>>

CallRestoreAllEnvFiles ==
    LET st == restoreAllEnvFiles(envFile[EnvRoot], envBackup[EnvRoot], EnvFileNames) IN
    /\ envFile' = [envFile EXCEPT ![EnvRoot] = st.file]
    /\ envBackup' = [envBackup EXCEPT ![EnvRoot] = st.backup]
    /\ last' = [last EXCEPT !.op = "restore", !.prev = last.op,
                            !.restored = st.restored]
    /\ UNCHANGED <<pureVars, profile, pathExists, registryExists, registry,
                   configToml, running, activeSessionRoot, session>>

EnvFilesNext ==
    \/ \E portMap \in EnvPortMaps : CallUpdateEnvFiles(portMap)
    \/ CallRestoreAllEnvFiles

SpecEnvFiles == EnvFilesInit /\ [][EnvFilesNext]_vars

\* C6: one updateEnvFiles followed by restoreAllEnvFiles on the same files,
\* no backup existing before: every file is back to its content before the
\* update, no backup is left, and the restored list is the modified list.
C6_RestoreInvertsUpdate ==
    (last.op = "restore" /\ last.prev = "update" /\ last.updates = 1) =>
        /\ envFile[EnvRoot] = last.pristine
        /\ \A f \in Range(EnvFileNames) : ~envBackup[EnvRoot][f].exists
        /\ last.restored = last.modified

\* C6 witness: the update modified one file and left the other alone
C6_Witness ==
    /\ last.op = "restore" /\ last.prev = "update" /\ last.updates = 1
    /\ Len(last.restored) = 1
    /\ envFile[EnvRoot] = last.pristine

\* C7: with no restore in between, every existing backup holds the content
\* its file had before the first update.
C7_BackupsArePristine ==
    last.op = "update" =>
        \A f \in Range(EnvFileNames) :
            envBackup[EnvRoot][f].exists
                => envBackup[EnvRoot][f].content = last.pristine[f]

-----------------------------------------------------------------------------
(* SpecId: deriveProjectId applied to bounded names and existing ids *)

NameFeatureLogin == <<"f", "e", "a", "t", "u", "r", "e", "/", "l", "o", "g", "i", "n">>
NameFeatureLoginAlt == <<"F", "e", "a", "t", "u", "r", "e", "_", "L", "o", "g", "i", "n">>
NameMain == <<"m", "a", "i", "n">>
NameHyphens == <<"-", "-", "f", "i", "x", "/", "/", "b", "u", "g", "-", "-">>

Repeat(c, n) == [i \in 1..n |-> c]

\* sanitized bodies of 34, 35 and 36 characters: prefix + body is 39, 40, 41
NameLen34 == Repeat("a", 30) \o <<"/", "x", "y", "z">>
NameLen35 == Repeat("a", 30) \o <<"/", "w", "x", "y", "z">>
NameLen36 == Repeat("b", 25) \o <<"-">> \o Repeat("c", 10)

IdNames == {NameFeatureLogin, NameFeatureLoginAlt, NameMain, NameHyphens,
            NameLen34, NameLen35, NameLen36}

MaxExisting == 3

\* the ids a registry may already hold for a name: its candidate and the
\* numbered ones up to -4, and an id of another project
IdsNear(name) ==
    LET sanitized == sanitize(name)
        candidate == enforceMaxLength(PROJECT_ID_PREFIX \o sanitized, sanitized, <<>>)
    IN {candidate} \cup
       {enforceMaxLength(candidate \o suffixOf(n), sanitized, suffixOf(n)) : n \in 2..(MaxExisting + 1)}
       \cup {PROJECT_ID_PREFIX \o <<"o", "t", "h", "e", "r">>}

RECURSIVE SetToSeq(_)
SetToSeq(S) ==
    IF S = {} THEN <<>>
    ELSE LET x == CHOOSE y \in S : TRUE IN <<x>> \o SetToSeq(S \ {x})

IdInit ==
    /\ \E branch \in IdNames, worktreeName \in {Null, NameMain, NameLen36} :
         \E ids \in {S \in SUBSET IdsNear(IF worktreeName # Null THEN worktreeName ELSE branch) :
                        Cardinality(S) <= MaxExisting} :
            idIn = [branch |-> branch, worktreeName |-> worktreeName,
                    existingIds |-> SetToSeq(ids)]
    /\ idOut = [done |-> FALSE, id |-> <<>>]
    /\ AllocIdle /\ ConfigIdle /\ EnvIdle /\ DiskIdle

CallDeriveProjectId ==
    /\ ~idOut.done
    /\ idOut' = [done |-> TRUE,
                 id |-> deriveProjectId(idIn.branch, idIn.worktreeName, idIn.existingIds)]
    /\ UNCHANGED <<allocIn, allocOut, configIn, configOut, envIn, envOut, idIn,
                   diskVars, last>>

IdNext == CallDeriveProjectId

SpecId == IdInit /\ [][IdNext]_vars

IdBody(in) == sanitize(IF in.worktreeName # Null THEN in.worktreeName ELSE in.branch)

\* prefix + sanitized name, length-enforced
IdBaseCandidate(in) ==
    enforceMaxLength(PROJECT_ID_PREFIX \o IdBody(in), IdBody(in), <<>>)

\* the length-enforced candidate carrying suffix -n
IdNumbered(in, n) ==
    enforceMaxLength(IdBaseCandidate(in) \o suffixOf(n), IdBody(in), suffixOf(n))

\* C10: the base candidate when it is free; otherwise the numbered candidate
\* for the smallest n >= 2 that is free; never a member of existingIds.
C10_DeriveSmallestFreeSuffix ==
    idOut.done =>
        LET ids == Range(idIn.existingIds) IN
        /\ idOut.id \notin ids
        /\ IF IdBaseCandidate(idIn) \notin ids
           THEN idOut.id = IdBaseCandidate(idIn)
           ELSE \E n \in 2..(Cardinality(ids) + 2) :
                   /\ idOut.id = IdNumbered(idIn, n)
                   /\ \A m \in 2..(n - 1) : IdNumbered(idIn, m) \in ids

\* C10 witness: the candidate and -2 are taken, -3 is returned for a name
\* that needs truncation
C10_Witness ==
    /\ idOut.done
    /\ IdBaseCandidate(idIn) \in Range(idIn.existingIds)
    /\ IdNumbered(idIn, 2) \in Range(idIn.existingIds)
    /\ idOut.id = IdNumbered(idIn, 3)
    /\ Len(PROJECT_ID_PREFIX \o IdBody(idIn)) > MAX_PROJECT_ID_LENGTH

\* C11: the returned id has at most 40 characters, starts with "sbwt-" and
\* holds only characters of [a-z0-9-].
C11_IdIsShortAndSafe ==
    idOut.done =>
        /\ Len(idOut.id) <= MAX_PROJECT_ID_LENGTH
        /\ startsWith(idOut.id, PROJECT_ID_PREFIX)
        /\ \A i \in 1..Len(idOut.id) :
              idOut.id[i] \in Range(Lower) \cup DigitSet \cup {"-"}

\* C11 witness: a name exactly at the limit gets a uniqueness suffix, and the
\* id returned is cut to the limit
C11_Witness ==
    /\ idOut.done
    /\ Len(PROJECT_ID_PREFIX \o IdBody(idIn)) = MAX_PROJECT_ID_LENGTH
    /\ idOut.id = IdNumbered(idIn, 2)
    /\ Len(idOut.id) = MAX_PROJECT_ID_LENGTH

-----------------------------------------------------------------------------
(* SpecRegistry: the registry operations called in any order, starting     *)
(* from an absent or an empty registry file                                 *)

Worktrees == {"/repo/main", "/repo/wt-a", "/repo/wt-b"}

\* readRegistry: an absent file reads as the empty array
readRegistry == IF registryExists THEN registry ELSE <<>>

RegistryEntries ==
    [worktreePath : Worktrees, branch : {NameMain},
     portBase : {54321, 54421},
     projectId : {PROJECT_ID_PREFIX \o NameMain, PROJECT_ID_PREFIX \o NameMain \o suffixOf(2)},
     portMap : {<<>>}]

RegistryInit ==
    /\ registryExists \in BOOLEAN
    /\ registry = <<>>
    /\ pathExists = [w \in Worktrees |-> TRUE]
    /\ last = [op |-> "none", entry |-> <<>>, path |-> "", before |-> <<>>,
               returned |-> <<>>]
    /\ profile = <<>> /\ configToml = <<>> /\ envFile = <<>>
    /\ envBackup = <<>> /\ running = <<>> /\ activeSessionRoot = "null" /\ session = <<>>
    /\ AllocIdle /\ ConfigIdle /\ EnvIdle /\ IdIdle

RegistryFrame ==
    UNCHANGED <<pureVars, profile, configToml, envFile, envBackup, running,
                activeSessionRoot, session>>

CallRegisterWorktree(entry) ==
    /\ registry' = registerWorktree(readRegistry, entry)
    /\ registryExists' = TRUE
    /\ last' = [op |-> "register", entry |-> entry, path |-> entry.worktreePath,
                before |-> readRegistry, returned |-> <<>>]
    /\ UNCHANGED pathExists
    /\ RegistryFrame

CallUnregisterWorktree(worktreePath) ==
    LET entries == readRegistry
        filtered == withoutPath(entries, worktreePath)
    IN
    /\ IF Len(filtered) = Len(entries)
       THEN UNCHANGED <<registry, registryExists>>
       ELSE registry' = filtered /\ registryExists' = TRUE
    /\ last' = [op |-> "unregister", entry |-> <<>>, path |-> worktreePath,
                before |-> entries,
                returned |-> <<Len(filtered) # Len(entries)>>]
    /\ UNCHANGED pathExists
    /\ RegistryFrame

\* cleanupStaleEntries: the stale entries it returns and the write it does
staleEntries(entries) == SelectSeq(entries, LAMBDA e : ~pathExists[e.worktreePath])
activeEntries(entries) == SelectSeq(entries, LAMBDA e : pathExists[e.worktreePath])

\* mutant of CallCleanupStaleEntries: the active entries are written back
\* whether or not an entry was stale
CallCleanupAlwaysWrites ==
    LET entries == readRegistry
        stale == staleEntries(entries)
    IN
    /\ registry' = activeEntries(entries) /\ registryExists' = TRUE
    /\ last' = [op |-> "cleanup", entry |-> <<>>, path |-> "",
                before |-> entries, returned |-> stale]
    /\ UNCHANGED pathExists
    /\ RegistryFrame

CallCleanupStaleEntries ==
    LET entries == readRegistry
        stale == staleEntries(entries)
    IN
    /\ IF Len(stale) > 0
       THEN registry' = activeEntries(entries) /\ registryExists' = TRUE
       ELSE UNCHANGED <<registry, registryExists>>
    /\ last' = [op |-> "cleanup", entry |-> <<>>, path |-> "",
                before |-> entries, returned |-> stale]
    /\ UNCHANGED pathExists
    /\ RegistryFrame

CallClearRegistry ==
    /\ registry' = <<>>
    /\ registryExists' = TRUE
    /\ last' = [op |-> "clear", entry |-> <<>>, path |-> "",
                before |-> readRegistry, returned |-> <<>>]
    /\ UNCHANGED pathExists
    /\ RegistryFrame

\* the user deletes a worktree directory
RemoveDirectory(w) ==
    /\ pathExists[w]
    /\ pathExists' = [pathExists EXCEPT ![w] = FALSE]
    /\ UNCHANGED <<pureVars, profile, registryExists, registry, configToml,
                   envFile, envBackup, running, activeSessionRoot, session, last>>

RegistryNext ==
    \/ \E entry \in RegistryEntries : CallRegisterWorktree(entry)
    \/ \E w \in Worktrees : CallUnregisterWorktree(w)
    \/ CallCleanupStaleEntries
    \/ CallClearRegistry
    \/ \E w \in Worktrees : RemoveDirectory(w)

SpecRegistry == RegistryInit /\ [][RegistryNext]_vars

\* C9: at most one record per worktreePath; after registerWorktree(r) there
\* is exactly one record for r.worktreePath, it equals r, and the records of
\* the other paths are the ones that were there, in their order.
C9_OneRecordPerPath ==
    /\ \A i, j \in 1..Len(registry) :
          registry[i].worktreePath = registry[j].worktreePath => i = j
    /\ last.op = "register" =>
          /\ Cardinality({i \in 1..Len(registry) :
                            registry[i].worktreePath = last.entry.worktreePath}) = 1
          /\ \E i \in 1..Len(registry) : registry[i] = last.entry
          /\ withoutPath(registry, last.entry.worktreePath)
               = withoutPath(last.before, last.entry.worktreePath)

\* C9 witness: a record was replaced by another one for the same path while
\* a record of another path stayed
C9_Witness ==
    /\ last.op = "register"
    /\ Len(registry) >= 2
    /\ \E i \in 1..Len(last.before) :
          /\ last.before[i].worktreePath = last.entry.worktreePath
          /\ last.before[i] # last.entry

-----------------------------------------------------------------------------
(* Spec: the start, stop, cleanup and nuke commands run one after another  *)
(* (never interleaved) over a set of worktrees                              *)

(* A profile is what a command finds in a worktree: the package.json       *)
(* config, the template, the env files the patterns discover and what git  *)
(* reports (the branch; the directory name when it is a linked worktree).  *)
EnvContentApi ==
    <<"URL", "=", "localhost", ":">> \o NumberToString(54321)
      \o <<"/", "KEY", "=">> \o NumberToString(54321)
EnvContentDb == <<"DB", "=", "127.0.0.1", ":">> \o NumberToString(54322)

ProfileMain ==
    [hasConfig |-> TRUE, hasTemplate |-> TRUE, template |-> TemplateDefault,
     portBlockSize |-> DEFAULT_PORT_BLOCK_SIZE, envFiles |-> <<".env">>,
     branch |-> NameMain, worktreeName |-> Null]

NameWtA == <<"w", "t", "-", "a">>
NameDev == <<"d", "e", "v">>

\* a linked worktree: git reports the directory name
ProfileLinked ==
    [hasConfig |-> TRUE, hasTemplate |-> TRUE, template |-> TemplateDefault,
     portBlockSize |-> DEFAULT_PORT_BLOCK_SIZE, envFiles |-> <<".env">>,
     branch |-> NameDev, worktreeName |-> NameWtA]

\* a project configured with a smaller block
ProfileSmallBlock ==
    [hasConfig |-> TRUE, hasTemplate |-> TRUE, template |-> TemplateDefault,
     portBlockSize |-> 50, envFiles |-> <<>>,
     branch |-> NameDev, worktreeName |-> Null]

ProfileNoPorts ==
    [hasConfig |-> TRUE, hasTemplate |-> TRUE, template |-> TemplateNoPorts,
     portBlockSize |-> DEFAULT_PORT_BLOCK_SIZE, envFiles |-> <<".env">>,
     branch |-> NameMain, worktreeName |-> Null]

ProfileNoTemplate ==
    [hasConfig |-> TRUE, hasTemplate |-> FALSE, template |-> <<>>,
     portBlockSize |-> DEFAULT_PORT_BLOCK_SIZE, envFiles |-> <<".env">>,
     branch |-> NameMain, worktreeName |-> Null]

ProfileNoConfig ==
    [hasConfig |-> FALSE, hasTemplate |-> TRUE, template |-> TemplateDefault,
     portBlockSize |-> DEFAULT_PORT_BLOCK_SIZE, envFiles |-> <<>>,
     branch |-> NameMain, worktreeName |-> Null]

\* the state names the profile of each root
Profiles ==
    [main |-> ProfileMain, linked |-> ProfileLinked, smallBlock |-> ProfileSmallBlock,
     noPorts |-> ProfileNoPorts, noTemplate |-> ProfileNoTemplate,
     noConfig |-> ProfileNoConfig]

\* loadConfig and the files and git state found next to it
loadConfig(w) == Profiles[profile[w]]

\* the project roots the commands are run in
Roots == {"/repo/main", "/repo/wt-a"}

\* what each root may hold: the first is a checkout on main that may be
\* misconfigured, the second a clone on main, a linked worktree or a project
\* configured with a smaller block
ProfilesOf ==
    ("/repo/main" :> {"main", "noPorts", "noTemplate", "noConfig"})
      @@ ("/repo/wt-a" :> {"main", "linked", "smallBlock"})

NoConfigToml == [exists |-> FALSE, content |-> <<>>]

\* the projects, files and registry the commands start from
CommandsInit ==
    /\ profile \in [Roots -> DOMAIN Profiles]
    /\ \A w \in Roots : profile[w] \in ProfilesOf[w]
    /\ pathExists = [w \in Roots |-> TRUE]
    /\ registryExists = FALSE
    /\ registry = <<>>
    /\ configToml = [w \in Roots |-> NoConfigToml]
    /\ envFile = [w \in Roots |-> (".env" :> EnvContentApi) @@ (".env.local" :> EnvContentDb)]
    /\ envBackup = [w \in Roots |-> [f \in Range(EnvFileNames) |-> NoBackup]]
    /\ running = [w \in Roots |-> FALSE]
    /\ activeSessionRoot = "null"
    /\ last = [op |-> "none", exitCode |-> 0, threw |-> FALSE]
    /\ AllocIdle /\ ConfigIdle /\ EnvIdle /\ IdIdle

\* no interactive session
Init == CommandsInit /\ session = <<>>

\* the command returns: process.exitCode stays 0
Returns(op) == last' = [op |-> op, exitCode |-> 0, threw |-> FALSE]

\* the command sets process.exitCode and returns
Refuses(op) == last' = [op |-> op, exitCode |-> 1, threw |-> FALSE]

\* the command throws: the caller reports the error and sets process.exitCode
\* unless the session is interactive
Throws(op, interactive) ==
    last' = [op |-> op, exitCode |-> IF interactive THEN 0 ELSE 1, threw |-> TRUE]

\* a command that returns or throws before it has written anything
NothingWritten ==
    UNCHANGED <<pureVars, profile, pathExists, registryExists, registry,
                configToml, envFile, envBackup, running>>

\* ctx.interactive and the answer to the confirmation, asked only when
\* interactive
Answers == {<<FALSE, FALSE>>, <<TRUE, FALSE>>, <<TRUE, TRUE>>}

(* What startCommand computes and writes in root w once it is past its     *)
(* checks: the allocation, the port map, the project id, config.toml, the  *)
(* env files and the registry.  `failed` names the check that throws.      *)
startWrites(w) ==
    LET config == loadConfig(w)
        entries == readRegistry
        extractedPorts == extractPorts(config.template)
        templatePortBase == getPortBase(extractedPorts)
        alloc == allocatePortBase(getAllocatedPortBases(entries), templatePortBase,
                                  config.portBlockSize)
        newBase == alloc.value
        portMap == buildPortMap(extractedPorts, newBase)
        projectId == deriveProjectId(config.branch, config.worktreeName,
                                     getAllocatedProjectIds(entries))
        entry == [worktreePath |-> w, branch |-> config.branch, portBase |-> newBase,
                  projectId |-> projectId, portMap |-> portMap]
    IN
    IF ~config.hasConfig THEN [failed |-> "config"]
    ELSE IF ~config.hasTemplate THEN [failed |-> "template"]
    ELSE IF Len(extractedPorts) = 0 THEN [failed |-> "ports"]
    ELSE IF alloc.threw THEN [failed |-> "allocation"]
    ELSE [failed |-> "none",
          configToml |-> [exists |-> TRUE,
                          content |-> generateConfig(config.template, portMap,
                                                     projectId)],
          env |-> updateEnvFiles(envFile[w], envBackup[w], config.envFiles, portMap),
          registry |-> registerWorktree(entries, entry)]

\* the external command that fails in a run of start: none, git (branch and
\* repository) or `supabase start`
Faults == {"none", "git", "supabase"}

\* the run of start gets as far as `supabase start`
reachesSupabaseStart(w, writes, a) ==
    /\ writes.failed = "none"
    /\ hasWorktreeEntry(readRegistry, w) => (a[1] /\ a[2])

\* mutant of StartStep: a failing `supabase start` undoes what start wrote
StartStepRollsBack(w, writes, a, fault) ==
    LET interactive == a[1]
        proceed == a[2]
        registered == hasWorktreeEntry(readRegistry, w)
    IN
    IF writes.failed \in {"config", "template"}
    THEN Throws("start", interactive) /\ NothingWritten
    ELSE IF registered /\ interactive /\ ~proceed
    THEN Returns("start") /\ NothingWritten
    ELSE IF registered /\ ~interactive
    THEN Refuses("start") /\ NothingWritten
    ELSE IF writes.failed \in {"ports", "allocation"} \/ fault # "none"
    THEN Throws("start", interactive) /\ NothingWritten
    ELSE /\ configToml' = [configToml EXCEPT ![w] = writes.configToml]
         /\ envFile' = [envFile EXCEPT ![w] = writes.env.file]
         /\ envBackup' = [envBackup EXCEPT ![w] = writes.env.backup]
         /\ registry' = writes.registry
         /\ registryExists' = TRUE
         /\ running' = [running EXCEPT ![w] = TRUE]
         /\ Returns("start")
         /\ UNCHANGED <<pureVars, profile, pathExists>>

(* One run of startCommand for the project root w.  writes: what the run   *)
(* computes from the state it starts in; a: ctx.interactive and the answer *)
(* to the confirmation; fault: the external command that fails.            *)
StartStep(w, writes, a, fault) ==
    LET interactive == a[1]
        proceed == a[2]
        registered == hasWorktreeEntry(readRegistry, w)
    IN
    IF writes.failed \in {"config", "template"}
    THEN Throws("start", interactive) /\ NothingWritten
    ELSE IF registered /\ interactive /\ ~proceed
    THEN Returns("start") /\ NothingWritten
    ELSE IF registered /\ ~interactive
    THEN Refuses("start") /\ NothingWritten
    ELSE IF writes.failed \in {"ports", "allocation"}
    THEN Throws("start", interactive) /\ NothingWritten
    ELSE IF fault = "git"
    THEN Throws("start", interactive) /\ NothingWritten
    ELSE /\ configToml' = [configToml EXCEPT ![w] = writes.configToml]
         /\ envFile' = [envFile EXCEPT ![w] = writes.env.file]
         /\ envBackup' = [envBackup EXCEPT ![w] = writes.env.backup]
         /\ registry' = writes.registry
         /\ registryExists' = TRUE
         /\ IF fault # "supabase"
            THEN running' = [running EXCEPT ![w] = TRUE]
                 /\ Returns("start")
            ELSE UNCHANGED running
                 /\ Throws("start", interactive)
         /\ UNCHANGED <<pureVars, profile, pathExists>>

\* startCommand for the project root w
StartCommand(w) ==
    /\ pathExists[w]
    /\ \E writes \in {startWrites(w)} :
       \E a \in Answers, fault \in Faults : StartStep(w, writes, a, fault)

RECURSIVE restoreSome(_, _, _)
\* restoreAllEnvFiles that fails (throws) after `upTo` files
restoreSome(st, envFiles, upTo) ==
    IF envFiles = <<>> \/ upTo = 0 THEN st
    ELSE restoreSome(restoreEnvFile(st, Head(envFiles)), Tail(envFiles), upTo - 1)

\* mutant of StopCommand: a failing `supabase stop` ends the teardown
StopCommandGivesUp(w, interactive, proceed, stopOk, restoreUpTo) ==
    LET config == loadConfig(w)
        entries == readRegistry
        envFiles == IF config.hasConfig THEN config.envFiles ELSE <<>>
        env == restoreSome([file |-> envFile[w], backup |-> envBackup[w],
                            modified |-> <<>>, restored |-> <<>>],
                           envFiles, restoreUpTo)
    IN
    /\ pathExists[w]
    /\ restoreUpTo \in 0..Len(envFiles)
    /\ IF ~hasWorktreeEntry(entries, w) \/ (interactive /\ ~proceed) \/ ~stopOk
       THEN Returns("stop") /\ NothingWritten
       ELSE /\ running' = [running EXCEPT ![w] = FALSE]
            /\ envFile' = [envFile EXCEPT ![w] = env.file]
            /\ envBackup' = [envBackup EXCEPT ![w] = env.backup]
            /\ registry' = withoutPath(entries, w)
            /\ registryExists' = TRUE
            /\ Returns("stop")
            /\ UNCHANGED <<pureVars, profile, pathExists, configToml>>

(* stopCommand for the project root w.  stopOk: `supabase stop` succeeds;  *)
(* restoreUpTo: the number of env files handled before the restore step    *)
(* throws (all of them: it does not throw).                                *)
StopCommand(w, interactive, proceed, stopOk, restoreUpTo) ==
    LET config == loadConfig(w)
        entries == readRegistry
        envFiles == IF config.hasConfig THEN config.envFiles ELSE <<>>
        env == restoreSome([file |-> envFile[w], backup |-> envBackup[w],
                            modified |-> <<>>, restored |-> <<>>],
                           envFiles, restoreUpTo)
        filtered == withoutPath(entries, w)
    IN
    /\ pathExists[w]
    /\ restoreUpTo \in 0..Len(envFiles)
    /\ IF ~hasWorktreeEntry(entries, w)
       THEN Returns("stop") /\ NothingWritten
       ELSE IF interactive /\ ~proceed
       THEN Returns("stop") /\ NothingWritten
       ELSE /\ running' = IF stopOk THEN [running EXCEPT ![w] = FALSE] ELSE running
            /\ envFile' = [envFile EXCEPT ![w] = env.file]
            /\ envBackup' = [envBackup EXCEPT ![w] = env.backup]
            /\ registry' = filtered
            /\ registryExists' = TRUE
            /\ Returns("stop")
            /\ UNCHANGED <<pureVars, profile, pathExists, configToml>>

\* cleanupCommand
CleanupCommand ==
    LET entries == readRegistry
        stale == staleEntries(entries)
    IN
    /\ IF Len(stale) > 0
       THEN registry' = activeEntries(entries) /\ registryExists' = TRUE
       ELSE UNCHANGED <<registry, registryExists>>
    /\ Returns("cleanup")
    /\ UNCHANGED <<pureVars, profile, pathExists, configToml, envFile, envBackup,
                   running>>

(* nukeCommand.  stopped: the worktrees whose `supabase stop` succeeds.    *)
NukeCommand(interactive, proceed, stopped) ==
    LET entries == readRegistry IN
    /\ stopped \subseteq {entries[i].worktreePath : i \in 1..Len(entries)}
    /\ IF Len(entries) = 0
       THEN Returns("nuke") /\ NothingWritten
       ELSE IF interactive /\ ~proceed
       THEN Returns("nuke") /\ NothingWritten
       ELSE /\ running' = [w \in Roots |-> IF w \in stopped THEN FALSE ELSE running[w]]
            /\ registry' = <<>>
            /\ registryExists' = TRUE
            /\ Returns("nuke")
            /\ UNCHANGED <<pureVars, profile, pathExists, configToml, envFile,
                           envBackup>>

\* a command run as a subcommand (`sb-worktree start`): the process runs it
\* once and exits, no session is tracked
Subcommand(command) == command /\ UNCHANGED <<activeSessionRoot, session>>

Next ==
    \/ \E w \in Roots : Subcommand(StartCommand(w))
    \/ \E w \in Roots, a \in Answers, stopOk \in BOOLEAN, restoreUpTo \in 0..1 :
          Subcommand(StopCommand(w, a[1], a[2], stopOk, restoreUpTo))
    \/ Subcommand(CleanupCommand)
    \/ \E a \in Answers, stopped \in SUBSET Roots :
          Subcommand(NukeCommand(a[1], a[2], stopped))
    \/ RemoveDirectory("/repo/wt-a")

Spec == Init /\ [][Next]_vars

\* the block a record occupies: the block size is the one configured in the
\* worktree that registered the record
BlockOf(e) == e.portBase..(e.portBase + loadConfig(e.worktreePath).portBlockSize - 1)

\* C1: no two records of the registry have overlapping port ranges
\* [portBase, portBase + blockSize).
C1_NoOverlappingRanges ==
    \A i, j \in 1..Len(registry) :
        i # j => BlockOf(registry[i]) \cap BlockOf(registry[j]) = {}

\* C8: the records of the registry have pairwise distinct projectId values.
C8_DistinctProjectIds ==
    \A i, j \in 1..Len(registry) :
        registry[i].projectId = registry[j].projectId => i = j

\* C8 witness: two worktrees whose names sanitize to the same body are both
\* registered
C8_Witness ==
    \E i, j \in 1..Len(registry) :
        /\ i # j
        /\ IdBody(loadConfig(registry[i].worktreePath)) = IdBody(loadConfig(registry[j].worktreePath))

\* C12: a start that writes its record leaves no stale record (one whose
\* worktree path no longer exists on disk) in the registry.
C12_StartRemovesStale ==
    [][\A w \in Roots :
          (StartCommand(w) /\ registry' # registry)
              => Len(staleEntries(registry')) = 0]_vars

-----------------------------------------------------------------------------
(* SpecSession: the interactive menu loop run in one project root, with    *)
(* subcommands run from other terminals in the other root in between       *)

\* ctx.projectRoot of the session
SessionRoot == "/repo/main"

SessionInit == Init /\ profile[SessionRoot] = "main"

(* cleanupActiveSession.  stopOk: `supabase stop` succeeds; restoreUpTo:   *)
(* the number of env files handled before the restore step throws.         *)
CleanupActiveSession(stopOk, restoreUpTo) ==
    IF activeSessionRoot = "null"
    THEN /\ last' = [op |-> "quit", exitCode |-> 0, threw |-> FALSE]
         /\ UNCHANGED activeSessionRoot
         /\ NothingWritten
    ELSE LET root == activeSessionRoot
             config == loadConfig(root)
             entries == readRegistry
             envFiles == IF config.hasConfig THEN config.envFiles ELSE <<>>
             env == restoreSome([file |-> envFile[root], backup |-> envBackup[root],
                                 modified |-> <<>>, restored |-> <<>>],
                                envFiles, restoreUpTo)
             filtered == withoutPath(entries, root)
         IN
         /\ restoreUpTo \in 0..Len(envFiles)
         /\ activeSessionRoot' = "null"
         /\ running' = IF stopOk THEN [running EXCEPT ![root] = FALSE] ELSE running
         /\ envFile' = [envFile EXCEPT ![root] = env.file]
         /\ envBackup' = [envBackup EXCEPT ![root] = env.backup]
         /\ IF Len(filtered) = Len(entries)
            THEN UNCHANGED <<registry, registryExists>>
            ELSE registry' = filtered /\ registryExists' = TRUE
         /\ last' = [op |-> "cleanupActiveSession", exitCode |-> 0, threw |-> FALSE]
         /\ UNCHANGED <<pureVars, profile, pathExists, configToml>>

(* The menu runs a command with ctx.interactive true, so process.exitCode  *)
(* is never set; a start that returns makes its root the active session,   *)
(* a stop or nuke that returns clears it.                                  *)
MenuStart ==
    /\ StartCommand(SessionRoot)
    /\ last'.exitCode = 0
    /\ activeSessionRoot' = IF last'.threw THEN activeSessionRoot ELSE SessionRoot
    /\ UNCHANGED session

MenuStop(proceed, stopOk, restoreUpTo) ==
    /\ StopCommand(SessionRoot, TRUE, proceed, stopOk, restoreUpTo)
    /\ activeSessionRoot' = "null"
    /\ UNCHANGED session

MenuNuke(proceed, stopped) ==
    /\ NukeCommand(TRUE, proceed, stopped)
    /\ activeSessionRoot' = "null"
    /\ UNCHANGED session

\* the user picks quit, or presses Ctrl+C or Ctrl+D at the menu prompt
MenuQuit(stopOk, restoreUpTo) ==
    CleanupActiveSession(stopOk, restoreUpTo) /\ UNCHANGED session

OtherRoot == "/repo/wt-a"

SessionNext ==
    \/ MenuStart
    \/ \E proceed, stopOk \in BOOLEAN, restoreUpTo \in 0..1 :
          MenuStop(proceed, stopOk, restoreUpTo)
    \/ \E proceed \in BOOLEAN, stopped \in SUBSET Roots : MenuNuke(proceed, stopped)
    \/ \E stopOk \in BOOLEAN, restoreUpTo \in 0..1 : MenuQuit(stopOk, restoreUpTo)
    \/ Subcommand(StartCommand(OtherRoot))
    \/ \E a \in Answers, stopOk \in BOOLEAN, restoreUpTo \in 0..1 :
          Subcommand(StopCommand(OtherRoot, a[1], a[2], stopOk, restoreUpTo))

SpecSession == SessionInit /\ [][SessionNext]_vars

\* C13: a stop that proceeds past the confirmation, and a session cleanup,
\* of a registered worktree end with the worktree's record removed, whether
\* or not the service stop and the env-file restore succeed.
C13_TeardownUnregisters ==
    [][/\ \A w \in Roots, a \in Answers, stopOk \in BOOLEAN, restoreUpTo \in 0..1 :
            (/\ StopCommand(w, a[1], a[2], stopOk, restoreUpTo)
             /\ hasWorktreeEntry(readRegistry, w)
             /\ (a[1] => a[2]))
                => ~hasWorktreeEntry(registry', w)
       /\ \A stopOk \in BOOLEAN, restoreUpTo \in 0..1 :
            (/\ CleanupActiveSession(stopOk, restoreUpTo)
             /\ activeSessionRoot # "null")
                => ~hasWorktreeEntry(registry', activeSessionRoot)]_vars

\* C13 witness: a session cleanup has removed the record although the
\* service is still up (its stop failed) and a backup is still there (the
\* restore failed)
C13_Witness ==
    /\ last.op = "cleanupActiveSession"
    /\ running[SessionRoot]
    /\ envBackup[SessionRoot][".env"].exists
    /\ ~hasWorktreeEntry(readRegistry, SessionRoot)

-----------------------------------------------------------------------------
(* SpecStart: runs of `sb-worktree start`, and of `sb-worktree stop        *)
(* --no-interactive` in which nothing fails, in the two project roots      *)
StartNext ==
    \/ \E w \in Roots : Subcommand(StartCommand(w))
    \/ \E w \in Roots, restoreUpTo \in 0..1 :
          /\ restoreUpTo = Len(loadConfig(w).envFiles)
          /\ Subcommand(StopCommand(w, FALSE, FALSE, TRUE, restoreUpTo))

SpecStart == Init /\ [][StartNext]_vars

\* C14: a run of start whose `supabase start` fails ends with an error (and
\* with exit code 1 outside the menu), and the generated config, the
\* rewritten env files, their backups and the registry record are what the
\* run wrote before it attempted the service start.
C14_FailedStartKeepsWrites ==
    [][\A w \in Roots :
         (last'.op = "start" /\ pathExists[w]) =>
            \A writes \in {startWrites(w)} : \A a \in Answers :
               (reachesSupabaseStart(w, writes, a)
                   /\ StartStep(w, writes, a, "supabase"))
               => /\ last'.threw
                  /\ ~a[1] => last'.exitCode = 1
                  /\ configToml'[w] = writes.configToml
                  /\ configToml'[w].exists
                  /\ envFile'[w] = writes.env.file
                  /\ envBackup'[w] = writes.env.backup
                  /\ registry' = writes.registry
                  /\ hasWorktreeEntry(registry', w)]_vars

\* C14 witness: a start has failed, the service is not running, and the
\* worktree has its record, its generated config and a backup of its
\* rewritten env file
C14_Witness ==
    \E w \in Roots :
        /\ last.op = "start" /\ last.threw
        /\ ~running[w]
        /\ hasWorktreeEntry(readRegistry, w)
        /\ configToml[w].exists
        /\ envBackup[w][".env"].exists
        /\ envFile[w][".env"] # envBackup[w][".env"].content

-----------------------------------------------------------------------------
(* SpecConfigPath: steps 2 to 7 of startCommand on the files of one        *)
(* project, for several values of "configTemplate" in package.json.  A     *)
(* path is the sequence of its pieces; the pieces are chosen so that       *)
(* ".template" occurs in a path only as a piece of its own, and two paths  *)
(* are the same string exactly when they are the same sequence.            *)

RECURSIVE replaceFirst(_, _)
\* String.prototype.replace(pattern, ""): drops the first occurrence
replaceFirst(path, pattern) ==
    IF Len(path) = 0 THEN <<>>
    ELSE IF Head(path) = pattern THEN Tail(path)
    ELSE <<Head(path)>> \o replaceFirst(Tail(path), pattern)

\* DEFAULT_CONFIG_TEMPLATE
DEFAULT_CONFIG_TEMPLATE == <<"supabase/", "config", ".toml", ".template">>

\* values of "configTemplate": the default, a template kept next to the
\* config under another name, a template that is the config itself
ConfigTemplates ==
    { DEFAULT_CONFIG_TEMPLATE,
      <<"supabase/", "config", ".template", ".toml">>,
      <<"supabase/", "template", ".toml">>,
      <<"supabase/", "config", ".toml">> }

ConfigPaths == ConfigTemplates \cup {replaceFirst(p, ".template") : p \in ConfigTemplates}

ConfigPathInit ==
    /\ configIn \in [configTemplate : ConfigTemplates,
                     template : Templates,
                     allocatedBases : SeqsUpTo(ConfigBaseChoices, MaxOccupied),
                     blockSize : ConfigBlockChoices,
                     projectId : {"sbwt-main"}]
    /\ configOut = [done |-> FALSE, threw |-> FALSE,
                    files |-> [p \in ConfigPaths |->
                                 IF p = configIn.configTemplate
                                 THEN [exists |-> TRUE, content |-> configIn.template]
                                 ELSE NoConfigToml]]
    /\ AllocIdle /\ EnvIdle /\ IdIdle /\ DiskIdle

\* steps 2 to 7 of startCommand
StartGeneratesConfig ==
    /\ ~configOut.done
    /\ LET templatePath == configIn.configTemplate
           configOutputPath == replaceFirst(configIn.configTemplate, ".template")
           content == configOut.files[templatePath].content
           extractedPorts == extractPorts(content)
           alloc == allocatePortBase(configIn.allocatedBases,
                                     getPortBase(extractedPorts), configIn.blockSize)
           portMap == buildPortMap(extractedPorts, alloc.value)
       IN IF ~configOut.files[templatePath].exists \/ Len(extractedPorts) = 0
          THEN configOut' = [configOut EXCEPT !.done = TRUE, !.threw = TRUE]
          ELSE IF alloc.threw
          THEN configOut' = [configOut EXCEPT !.done = TRUE, !.threw = TRUE]
          ELSE configOut' =
                 [done |-> TRUE, threw |-> FALSE,
                  files |-> [configOut.files EXCEPT ![configOutputPath] =
                               [exists |-> TRUE,
                                content |-> generateConfig(content, portMap,
                                                           configIn.projectId)]]]
    /\ UNCHANGED <<allocIn, allocOut, configIn, envIn, envOut, idIn, idOut,
                   diskVars, last>>

ConfigPathNext == StartGeneratesConfig

SpecConfigPath == ConfigPathInit /\ [][ConfigPathNext]_vars

\* C15: after a start, the template file holds what it held before, and the
\* generated config was written to another path than the template's.
C15_TemplateUntouched ==
    (configOut.done /\ ~configOut.threw) =>
        /\ configOut.files[configIn.configTemplate]
              = [exists |-> TRUE, content |-> configIn.template]
        /\ replaceFirst(configIn.configTemplate, ".template") # configIn.configTemplate

-----------------------------------------------------------------------------
\* C16: every line of the template that is neither a port-valued assignment
\* (key contains "port") nor the project_id line is in the generated config
\* as it is in the template.
C16_OnlyPortFieldsChange ==
    (configOut.done /\ ~configOut.threw) =>
        /\ Len(configOut.content) = Len(configIn.template)
        /\ \A i \in 1..Len(configIn.template) :
              (i \notin PortFields(configIn.template)
                  /\ configIn.template[i].kind # "project_id")
              => configOut.content[i] = configIn.template[i]

-----------------------------------------------------------------------------
RECURSIVE LeadingDigits(_)
\* the digits a text starts with
LeadingDigits(s) ==
    IF s # <<>> /\ Head(s) \in DigitSet THEN <<Head(s)>> \o LeadingDigits(Tail(s)) ELSE <<>>

\* the port numbers of the <allow-listed host>:<digits> references of a text
HostPortRefs(s) ==
    {LeadingDigits(SubSeq(s, i + 2, Len(s))) :
        i \in {j \in 1..(Len(s) - 2) :
                  s[j] \in HostSet /\ s[j + 1] = ":" /\ s[j + 2] \in DigitSet}}

\* C17: when no <allow-listed host>:<digits> reference of the content has a
\* port number that is a key of the port map, the content is returned as
\* it is.
C17_UnmappedRefsUntouched ==
    (envOut.done /\ HostPortRefs(envIn.content) \cap DOMAIN envIn.portMap = {})
        => envOut.content = envIn.content

-----------------------------------------------------------------------------
\* C18: in every run of updateEnvFiles, a file whose rewritten content
\* differs gets a backup holding its content before the run, is overwritten
\* with the rewritten content and is reported as modified; a file whose
\* content would not change keeps its content and the backup state it had,
\* and is not reported.
C18_BackupIffChanged ==
    [][\A portMap \in EnvPortMaps :
         CallUpdateEnvFiles(portMap) =>
            \A f \in Range(EnvFileNames) :
               LET content == envFile[EnvRoot][f]
                   updated == replacePortsInEnvContent(content, portMap)
               IN IF updated # content
                  THEN /\ envBackup'[EnvRoot][f] = [exists |-> TRUE, content |-> content]
                       /\ envFile'[EnvRoot][f] = updated
                       /\ f \in Range(last'.modified)
                  ELSE /\ envBackup'[EnvRoot][f] = envBackup[EnvRoot][f]
                       /\ envFile'[EnvRoot][f] = content
                       /\ f \notin Range(last'.modified)]_vars

\* C18 witness: an update on files without backups rewrote one file, whose
\* backup holds the content it had, and left the other without a backup
C18_Witness ==
    /\ last.op = "update" /\ last.updates = 1 /\ last.prev = "none"
    /\ last.modified = <<".env.local">>
    /\ envBackup[EnvRoot][".env.local"] = [exists |-> TRUE, content |-> last.pristine[".env.local"]]
    /\ envFile[EnvRoot][".env.local"] # last.pristine[".env.local"]
    /\ ~envBackup[EnvRoot][".env"].exists
    /\ envFile[EnvRoot][".env"] = last.pristine[".env"]

-----------------------------------------------------------------------------
(* SpecEnvRoundTrip: replacePortsInEnvContent applied to a content made of *)
(* <allow-listed host>:<port> references only, and then to its own output  *)
(* with the keys and values of the map swapped                             *)

HostPortRef == {<<h, ":", d>> : h \in HostSet, d \in {"1", "2", "3"}}

\* one reference, or two references on two lines
RefContents == HostPortRef \cup {r \o <<"\n">> \o q : r \in HostPortRef, q \in HostPortRef}

\* the maps that have an inverse
InvertiblePortMaps ==
    {pm \in EnvPortMaps : \A k, l \in DOMAIN pm : pm[k] = pm[l] => k = l}

\* the map with keys and values swapped
inversePortMap(portMap) ==
    [v \in {portMap[k] : k \in DOMAIN portMap} |->
        CHOOSE k \in DOMAIN portMap : portMap[k] = v]

RoundTripInit ==
    /\ envIn \in [content : RefContents, portMap : InvertiblePortMaps]
    /\ envOut = [done |-> FALSE, inverted |-> FALSE, content |-> <<>>]
    /\ AllocIdle /\ ConfigIdle /\ IdIdle /\ DiskIdle

CallReplacePortsForward ==
    /\ ~envOut.done
    /\ envOut' = [done |-> TRUE, inverted |-> FALSE,
                  content |-> replacePortsInEnvContent(envIn.content, envIn.portMap)]
    /\ UNCHANGED <<allocIn, allocOut, configIn, configOut, envIn, idIn, idOut,
                   diskVars, last>>

CallReplacePortsInverse ==
    /\ envOut.done /\ ~envOut.inverted
    /\ envOut' = [done |-> TRUE, inverted |-> TRUE,
                  content |-> replacePortsInEnvContent(envOut.content,
                                                       inversePortMap(envIn.portMap))]
    /\ UNCHANGED <<allocIn, allocOut, configIn, configOut, envIn, idIn, idOut,
                   diskVars, last>>

RoundTripNext == CallReplacePortsForward \/ CallReplacePortsInverse

SpecEnvRoundTrip == RoundTripInit /\ [][RoundTripNext]_vars

\* C19: rewriting with a map and then rewriting the output with the inverse
\* map gives back the original content.
C19_InverseMapRestores ==
    envOut.inverted => envOut.content = envIn.content

-----------------------------------------------------------------------------
(* SpecRegistryFile: the registry operations, and the way nuke reads the   *)
(* registry, on a registry file that may be absent or hold text that is    *)
(* not JSON.  In this specification the variable registry holds the TEXT   *)
(* of ~/.sb-worktrees.json as a sequence of pieces: brackets, entries and  *)
(* other text.                                                             *)

OpenBracket == [text |-> "["]
CloseBracket == [text |-> "]"]
OtherText == [text |-> "{oops"]

isEntryText(piece) == "worktreePath" \in DOMAIN piece

\* JSON.stringify(entries, null, 2)
JSONstringify(entries) == <<OpenBracket>> \o entries \o <<CloseBracket>>

\* mutant of JSONparse: text that is not JSON reads as the empty array
JSONparseLenient(raw) ==
    IF /\ Len(raw) >= 2
       /\ raw[1] = OpenBracket /\ raw[Len(raw)] = CloseBracket
       /\ \A i \in 2..(Len(raw) - 1) : isEntryText(raw[i])
    THEN [threw |-> FALSE, value |-> SubSeq(raw, 2, Len(raw) - 1)]
    ELSE [threw |-> FALSE, value |-> <<>>]

\* JSON.parse(raw): the array the text denotes, or a SyntaxError
JSONparse(raw) ==
    IF /\ Len(raw) >= 2
       /\ raw[1] = OpenBracket /\ raw[Len(raw)] = CloseBracket
       /\ \A i \in 2..(Len(raw) - 1) : isEntryText(raw[i])
    THEN [threw |-> FALSE, value |-> SubSeq(raw, 2, Len(raw) - 1)]
    ELSE [threw |-> TRUE, value |-> <<>>]

\* readRegistry on the file
readRegistryFile ==
    IF ~registryExists THEN [threw |-> FALSE, value |-> <<>>] ELSE JSONparse(registry)

FileEntries ==
    [worktreePath : {"/repo/main", "/repo/wt-a"}, branch : {NameMain},
     portBase : {54321, 54421}, projectId : {PROJECT_ID_PREFIX \o NameMain},
     portMap : {<<>>}]

\* what the file may hold when the tool finds it: nothing (an empty file),
\* an array cut off in the middle, other text, or an empty array
FileTexts ==
    {<<>>, <<OtherText>>, JSONstringify(<<>>)}
       \cup {<<OpenBracket, e>> : e \in {x \in FileEntries : x.portBase = 54321}}

RegistryFileInit ==
    /\ registryExists \in BOOLEAN
    /\ registry \in FileTexts
    /\ ~registryExists => registry = <<>>
    /\ pathExists = [w \in Worktrees |-> TRUE]
    /\ last = [op |-> "none", threw |-> FALSE, existed |-> registryExists,
               before |-> registry, returned |-> <<>>]
    /\ profile = <<>> /\ configToml = <<>> /\ envFile = <<>>
    /\ envBackup = <<>> /\ running = <<>> /\ activeSessionRoot = "null" /\ session = <<>>
    /\ AllocIdle /\ ConfigIdle /\ EnvIdle /\ IdIdle

\* the operation throws what readRegistry threw, before it writes
FileOpThrows(op) ==
    /\ last' = [op |-> op, threw |-> TRUE, existed |-> registryExists,
                before |-> registry, returned |-> <<>>]
    /\ UNCHANGED <<registry, registryExists, pathExists>>
    /\ RegistryFrame

FileOpReturns(op, returned) ==
    last' = [op |-> op, threw |-> FALSE, existed |-> registryExists,
             before |-> registry, returned |-> returned]

\* writeRegistry(entries)
writeRegistry(entries) ==
    registry' = JSONstringify(entries) /\ registryExists' = TRUE

FileGetWorktreeEntry(worktreePath) ==
    LET read == readRegistryFile IN
    IF read.threw THEN FileOpThrows("getWorktreeEntry")
    ELSE /\ FileOpReturns("getWorktreeEntry",
                          SelectSeq(read.value, LAMBDA e : e.worktreePath = worktreePath))
         /\ UNCHANGED <<registry, registryExists, pathExists>>
         /\ RegistryFrame

\* getAllEntries, getAllocatedPortBases, getAllocatedProjectIds
FileListEntries(op) ==
    LET read == readRegistryFile IN
    IF read.threw THEN FileOpThrows(op)
    ELSE /\ FileOpReturns(op, IF op = "getAllocatedPortBases"
                              THEN getAllocatedPortBases(read.value)
                              ELSE IF op = "getAllocatedProjectIds"
                              THEN getAllocatedProjectIds(read.value)
                              ELSE read.value)
         /\ UNCHANGED <<registry, registryExists, pathExists>>
         /\ RegistryFrame

FileRegisterWorktree(entry) ==
    LET read == readRegistryFile IN
    IF read.threw THEN FileOpThrows("registerWorktree")
    ELSE /\ writeRegistry(registerWorktree(read.value, entry))
         /\ FileOpReturns("registerWorktree", <<entry>>)
         /\ UNCHANGED pathExists
         /\ RegistryFrame

FileUnregisterWorktree(worktreePath) ==
    LET read == readRegistryFile
        filtered == withoutPath(read.value, worktreePath)
    IN
    IF read.threw THEN FileOpThrows("unregisterWorktree")
    ELSE /\ IF Len(filtered) = Len(read.value)
            THEN UNCHANGED <<registry, registryExists>>
            ELSE writeRegistry(filtered)
         /\ FileOpReturns("unregisterWorktree", <<Len(filtered) # Len(read.value)>>)
         /\ UNCHANGED pathExists
         /\ RegistryFrame

FileCleanupStaleEntries ==
    LET read == readRegistryFile
        stale == staleEntries(read.value)
    IN
    IF read.threw THEN FileOpThrows("cleanupStaleEntries")
    ELSE /\ IF Len(stale) > 0
            THEN writeRegistry(activeEntries(read.value))
            ELSE UNCHANGED <<registry, registryExists>>
         /\ FileOpReturns("cleanupStaleEntries", stale)
         /\ UNCHANGED pathExists
         /\ RegistryFrame

FileClearRegistry ==
    /\ writeRegistry(<<>>)
    /\ FileOpReturns("clearRegistry", <<>>)
    /\ UNCHANGED pathExists
    /\ RegistryFrame

(* nukeCommand run with --no-interactive and every `supabase stop`         *)
(* succeeding: a registry that cannot be read is cleared, an empty one is  *)
(* left alone, any other is cleared after the instances were stopped.      *)
FileNukeCommand ==
    LET read == readRegistryFile IN
    /\ IF ~read.threw /\ Len(read.value) = 0
       THEN UNCHANGED <<registry, registryExists>>
       ELSE writeRegistry(<<>>)
    /\ FileOpReturns("nuke", <<>>)
    /\ UNCHANGED pathExists
    /\ RegistryFrame

ListOps == {"getAllEntries", "getAllocatedPortBases", "getAllocatedProjectIds"}

ReadingOps ==
    ListOps \cup {"getWorktreeEntry", "registerWorktree", "unregisterWorktree",
                  "cleanupStaleEntries"}

RegistryFileNext ==
    \/ \E w \in Worktrees : FileGetWorktreeEntry(w)
    \/ \E op \in ListOps : FileListEntries(op)
    \/ \E entry \in FileEntries : FileRegisterWorktree(entry)
    \/ \E w \in Worktrees : FileUnregisterWorktree(w)
    \/ FileCleanupStaleEntries
    \/ FileClearRegistry
    \/ FileNukeCommand
    \/ RemoveDirectory("/repo/wt-a")

SpecRegistryFile == RegistryFileInit /\ [][RegistryFileNext]_vars

\* the texts writeRegistry produces for the arrays of at most one entry per
\* worktree
MaxFileEntries == 2
ArrayTexts == {JSONstringify(entries) : entries \in SeqsUpTo(FileEntries, MaxFileEntries)}

\* C20: an operation that finds no registry file does not fail and acts as
\* on an empty array; an operation that reads a file whose text is not JSON
\* fails and leaves the file as it was; such a file is replaced, by an empty
\* array, only by clearRegistry and by nuke.
C20_AbsentIsEmptyCorruptIsFatal ==
    LET corrupt == last.existed /\ last.before \notin ArrayTexts
        unchanged == registryExists = last.existed /\ registry = last.before
    IN
    /\ (last.op # "none" /\ ~last.existed) =>
          /\ ~last.threw
          /\ last.op \in ListOps \cup {"getWorktreeEntry", "cleanupStaleEntries"}
                => last.returned = <<>> /\ unchanged
          /\ last.op = "unregisterWorktree" => last.returned = <<FALSE>> /\ unchanged
          /\ last.op = "nuke" => unchanged
          /\ last.op = "registerWorktree" =>
                registryExists /\ registry = JSONstringify(last.returned)
    /\ (corrupt /\ last.op \in ReadingOps) => last.threw /\ unchanged
    /\ (corrupt /\ ~unchanged) =>
          /\ last.op \in {"clearRegistry", "nuke"}
          /\ registryExists /\ registry = JSONstringify(<<>>)
    /\ (corrupt /\ last.op = "nuke") => ~unchanged

\* C20 witness: registerWorktree has failed on an array cut off in the
\* middle, and the file still holds that text
C20_Witness ==
    /\ last.op = "registerWorktree" /\ last.threw
    /\ registryExists /\ Len(registry) = 2 /\ registry[1] = OpenBracket
    /\ isEntryText(registry[2])

-----------------------------------------------------------------------------
\* C21: cleanupStaleEntries returns the records whose worktreePath is not on
\* disk, in their order; the registry then reads as the other records, in
\* their order; when no record is stale the registry file is left as it is
\* (an absent file stays absent).
C21_CleanupRemovesExactlyStale ==
    [][CallCleanupStaleEntries =>
         LET entries == readRegistry
             missing == {i \in 1..Len(entries) : ~pathExists[entries[i].worktreePath]}
         IN
         /\ last'.returned = SelectSeq(entries, LAMBDA e : ~pathExists[e.worktreePath])
         /\ (IF registryExists' THEN registry' ELSE <<>>)
               = SelectSeq(entries, LAMBDA e : pathExists[e.worktreePath])
         /\ missing = {} => (registry' = registry /\ registryExists' = registryExists)
         /\ missing # {} => registryExists']_vars

\* C21 witness: a cleanup has returned a stale record and kept two others
C21_Witness ==
    /\ last.op = "cleanup"
    /\ Len(last.returned) = 1
    /\ Len(registry) = 2
    /\ Len(last.before) = 3
    /\ ~pathExists[last.returned[1].worktreePath]

-----------------------------------------------------------------------------
\* C30: a start or stop command that returns without starting or stopping
\* anything (nothing on disk and no service changes) leaves activeSessionRoot
\* as it was.
C30_IdleCommandKeepsTracking ==
    [][(/\ last'.op \in {"start", "stop"}
        /\ ~last'.threw
        /\ UNCHANGED <<running, registry, registryExists, envFile, envBackup,
                       configToml>>)
          => UNCHANGED activeSessionRoot]_vars

-----------------------------------------------------------------------------
(* SpecSignals: the interactive session as it runs on the event loop.  The *)
(* loop awaits the menu prompt and the command it runs; SIGINT and SIGTERM *)
(* arrive while it waits and run signalHandler; each call of               *)
(* cleanupActiveSession proceeds from one await to the next, interleaved   *)
(* with the rest.  A menu command takes effect in one step when it         *)
(* returns.  The variable session holds:                                   *)
(*   loop       where the loop is: "menu", "start", "stop", "nuke",        *)
(*              "cleanup" (awaiting the cleanup of quit) or "returned"     *)
(*   quit       the call of cleanupActiveSession made by the loop          *)
(*   handler    the call made by signalHandler                             *)
(*   cleaningUp the flag of signalHandler                                  *)
(*   signal     the signal whose handler is awaiting its cleanup           *)
(*   exit       the exit status, NotExited while the process lives         *)
(*   owned      an instance was started by a start of this session that    *)
(*              succeeded, and was neither stopped nor torn down since     *)
(*   teardowns  the teardowns begun since activeSessionRoot was last set   *)

NotExited == "none"
ExitNormal == "0"
ExitForced == "1"
ExitOf == [SIGINT |-> "130", SIGTERM |-> "143"]
MaxTeardowns == 2

NoCleanup == [pc |-> "idle", root |-> "null"]

SignalsInit ==
    /\ CommandsInit
    /\ profile = [w \in Roots |-> "main"]
    /\ session = [loop |-> "menu", quit |-> NoCleanup, handler |-> NoCleanup,
                  cleaningUp |-> FALSE, signal |-> "SIGINT", exit |-> NotExited,
                  owned |-> FALSE, teardowns |-> 0]

\* activeSessionRoot after `activeSessionRoot = null` at the entry of a
\* cleanup; mutant: the assignment is missing
keepsActiveRoot(root) == root

\* cleanupActiveSession, line 33: activeSessionRoot = null
clearsActiveRoot(root) == "null"

Alive == session.exit = NotExited

\* the loop shows the menu and the user picks a command
LoopChooses(choice) ==
    /\ Alive /\ session.loop = "menu"
    /\ session' = [session EXCEPT !.loop = choice]
    /\ UNCHANGED <<pureVars, profile, pathExists, registryExists, registry,
                   configToml, envFile, envBackup, running, activeSessionRoot, last>>

\* runCommand(start) returns or throws
LoopStartReturns ==
    /\ Alive /\ session.loop = "start"
    /\ StartCommand(SessionRoot)
    /\ last'.exitCode = 0
    /\ activeSessionRoot' = IF last'.threw THEN activeSessionRoot ELSE SessionRoot
    /\ LET started == ~last'.threw /\ registry' # registry IN
       session' = [session EXCEPT !.loop = "menu",
                                  !.owned = IF started THEN TRUE ELSE @,
                                  !.teardowns = IF last'.threw THEN @ ELSE 0]

\* runCommand(stop) returns
LoopStopReturns(proceed, stopOk, restoreUpTo) ==
    /\ Alive /\ session.loop = "stop"
    /\ StopCommand(SessionRoot, TRUE, proceed, stopOk, restoreUpTo)
    /\ activeSessionRoot' = "null"
    /\ session' = [session EXCEPT !.loop = "menu",
                                  !.owned = IF registry' # registry THEN FALSE ELSE @]

\* runCommand(nuke) returns
LoopNukeReturns(proceed, stopped) ==
    /\ Alive /\ session.loop = "nuke"
    /\ NukeCommand(TRUE, proceed, stopped)
    /\ activeSessionRoot' = "null"
    /\ session' = [session EXCEPT !.loop = "menu",
                                  !.owned = IF registry' # registry THEN FALSE ELSE @]

\* Ctrl+C at the confirmation of a command: the command is cancelled and
\* the loop goes back to the menu
LoopCommandCancelled ==
    /\ Alive /\ session.loop \in {"start", "stop", "nuke"}
    /\ IF session.loop = "nuke" THEN Len(readRegistry) > 0
       ELSE hasWorktreeEntry(readRegistry, SessionRoot)
    /\ session' = [session EXCEPT !.loop = "menu"]
    /\ UNCHANGED <<pureVars, profile, pathExists, registryExists, registry,
                   configToml, envFile, envBackup, running, activeSessionRoot, last>>

\* quit, or Ctrl+C / Ctrl+D at the menu prompt: the loop calls
\* cleanupActiveSession and awaits it
LoopQuits ==
    /\ Alive /\ session.loop = "menu"
    /\ IF activeSessionRoot = "null"
       THEN /\ session' = [session EXCEPT !.loop = "returned"]
            /\ UNCHANGED activeSessionRoot
       ELSE /\ session' = [session EXCEPT
                             !.loop = "cleanup",
                             !.quit = [pc |-> "stop", root |-> activeSessionRoot],
                             !.teardowns = Min({@ + 1, MaxTeardowns})]
            /\ activeSessionRoot' = clearsActiveRoot(activeSessionRoot)
    /\ UNCHANGED <<pureVars, profile, pathExists, registryExists, registry,
                   configToml, envFile, envBackup, running, last>>

\* signalHandler
SignalArrives(signal) ==
    /\ Alive /\ session.loop # "returned"
    /\ IF session.cleaningUp
       THEN /\ session' = [session EXCEPT !.exit = ExitForced]
            /\ UNCHANGED activeSessionRoot
       ELSE IF activeSessionRoot = "null"
       THEN /\ session' = [session EXCEPT !.cleaningUp = TRUE, !.exit = ExitOf[signal]]
            /\ UNCHANGED activeSessionRoot
       ELSE /\ session' = [session EXCEPT
                             !.cleaningUp = TRUE,
                             !.signal = signal,
                             !.handler = [pc |-> "stop", root |-> activeSessionRoot],
                             !.teardowns = Min({@ + 1, MaxTeardowns})]
            /\ activeSessionRoot' = clearsActiveRoot(activeSessionRoot)
    /\ UNCHANGED <<pureVars, profile, pathExists, registryExists, registry,
                   configToml, envFile, envBackup, running, last>>

\* a call of cleanupActiveSession (caller: "quit" or "handler") gets past
\* `await supabaseStop(root)`
CleanupStops(caller, stopOk) ==
    /\ Alive /\ session[caller].pc = "stop"
    /\ running' = IF stopOk THEN [running EXCEPT ![session[caller].root] = FALSE]
                  ELSE running
    /\ session' = [session EXCEPT ![caller].pc = "restore"]
    /\ UNCHANGED <<pureVars, profile, pathExists, registryExists, registry,
                   configToml, envFile, envBackup, activeSessionRoot, last>>

\* ... past loadConfig and restoreAllEnvFiles
CleanupRestores(caller, restoreUpTo) ==
    /\ Alive /\ session[caller].pc = "restore"
    /\ LET root == session[caller].root
           config == loadConfig(root)
           envFiles == IF config.hasConfig THEN config.envFiles ELSE <<>>
           env == restoreSome([file |-> envFile[root], backup |-> envBackup[root],
                               modified |-> <<>>, restored |-> <<>>],
                              envFiles, restoreUpTo)
       IN /\ restoreUpTo \in 0..Len(envFiles)
          /\ envFile' = [envFile EXCEPT ![root] = env.file]
          /\ envBackup' = [envBackup EXCEPT ![root] = env.backup]
    /\ session' = [session EXCEPT ![caller].pc = "unregister"]
    /\ UNCHANGED <<pureVars, profile, pathExists, registryExists, registry,
                   configToml, running, activeSessionRoot, last>>

\* ... past unregisterWorktree, and returns: the loop returns after its
\* call, signalHandler calls process.exit after its call
CleanupUnregisters(caller) ==
    /\ Alive /\ session[caller].pc = "unregister"
    /\ LET entries == readRegistry
           filtered == withoutPath(entries, session[caller].root)
       IN IF Len(filtered) = Len(entries)
          THEN UNCHANGED <<registry, registryExists>>
          ELSE registry' = filtered /\ registryExists' = TRUE
    /\ session' = [session EXCEPT
                     ![caller].pc = "done",
                     !.owned = FALSE,
                     !.loop = IF caller = "quit" THEN "returned" ELSE @,
                     !.exit = IF caller = "handler" THEN ExitOf[session.signal] ELSE @]
    /\ UNCHANGED <<pureVars, profile, pathExists, configToml, envFile, envBackup,
                   running, activeSessionRoot, last>>

\* the loop has returned and no handler is awaiting a cleanup: the process
\* ends
ProcessEnds ==
    /\ Alive /\ session.loop = "returned"
    /\ session.handler.pc \in {"idle", "done"}
    /\ session' = [session EXCEPT !.exit = ExitNormal]
    /\ UNCHANGED <<pureVars, profile, pathExists, registryExists, registry,
                   configToml, envFile, envBackup, running, activeSessionRoot, last>>

SignalsNext ==
    \/ \E choice \in {"start", "stop", "nuke"} : LoopChooses(choice)
    \/ LoopStartReturns
    \/ \E proceed, stopOk \in BOOLEAN, restoreUpTo \in 0..1 :
          LoopStopReturns(proceed, stopOk, restoreUpTo)
    \/ \E proceed \in BOOLEAN, stopped \in SUBSET Roots : LoopNukeReturns(proceed, stopped)
    \/ LoopCommandCancelled
    \/ LoopQuits
    \/ \E signal \in DOMAIN ExitOf : SignalArrives(signal)
    \/ \E caller \in {"quit", "handler"}, stopOk \in BOOLEAN : CleanupStops(caller, stopOk)
    \/ \E caller \in {"quit", "handler"}, restoreUpTo \in 0..1 :
          CleanupRestores(caller, restoreUpTo)
    \/ \E caller \in {"quit", "handler"} : CleanupUnregisters(caller)
    \/ ProcessEnds

SpecSignals == SignalsInit /\ [][SignalsNext]_vars

InTeardown(caller) == session[caller].pc \in {"stop", "restore", "unregister"}

\* C22: when the process has exited through quit, a prompt exit or a handled
\* signal, no instance that a start of this session brought up, and that was
\* not stopped since, is left without its teardown (service stop invoked,
\* env restore run, record removed).
C22_ExitTearsDownSessionInstance ==
    session.exit \in {ExitNormal, ExitOf.SIGINT, ExitOf.SIGTERM} => ~session.owned

\* C23: when the process has exited with the status of SIGINT or SIGTERM, no
\* teardown of the session's instance is left unfinished.
C23_SignalExitAfterTeardown ==
    session.exit \in {ExitOf.SIGINT, ExitOf.SIGTERM} =>
        ~InTeardown("quit") /\ ~InTeardown("handler")

\* C24: a signal that arrives while signalHandler is awaiting its cleanup
\* makes the process exit with status 1 at once, without touching anything
\* and without starting a teardown; and since activeSessionRoot was last set,
\* at most one teardown has begun.
C24_OneTeardownPerSession ==
    [][/\ session'.teardowns <= 1
       /\ \A signal \in DOMAIN ExitOf :
             (SignalArrives(signal) /\ session.cleaningUp)
                => /\ session' = [session EXCEPT !.exit = ExitForced]
                   /\ UNCHANGED <<activeSessionRoot, running, registry, registryExists,
                                  envFile, envBackup>>]_vars

\* C24 witness: a second signal has ended the process while the handler of
\* the first was in the middle of the only teardown
C24_Witness ==
    /\ session.exit = ExitForced
    /\ InTeardown("handler")
    /\ session.teardowns = 1
    /\ session.quit.pc = "idle"

-----------------------------------------------------------------------------
(* SpecRace: `sb-worktree start --no-interactive` run in the two project   *)
(* roots at the same time.  Each invocation reads the allocated bases      *)
(* (step 5), writes its own config and env files, and then runs            *)
(* registerWorktree, whose readRegistry and writeRegistry are two awaits;  *)
(* nothing locks the registry file between them.  session[w] holds the     *)
(* invocation running in w: where it is, the bases it read, the entry it   *)
(* built and the array registerWorktree read.                              *)

NoInvocation == [pc |-> "idle", bases |-> <<>>, entry |-> <<>>, entries |-> <<>>]

RaceInit ==
    /\ CommandsInit
    /\ profile["/repo/main"] = "main"
    /\ session = [w \in Roots |-> NoInvocation]

RaceFrame == UNCHANGED <<pureVars, profile, pathExists, activeSessionRoot>>

\* steps 1 to 8 of startCommand: the allocation from the bases read now
RaceAllocates(w) ==
    /\ session[w].pc = "idle"
    /\ ~hasWorktreeEntry(readRegistry, w)
    /\ \E writes \in {startWrites(w)} :
          /\ writes.failed = "none"
          /\ configToml' = [configToml EXCEPT ![w] = writes.configToml]
          /\ envFile' = [envFile EXCEPT ![w] = writes.env.file]
          /\ envBackup' = [envBackup EXCEPT ![w] = writes.env.backup]
          /\ session' = [session EXCEPT ![w] =
                [pc |-> "allocated",
                 bases |-> getAllocatedPortBases(readRegistry),
                 entry |-> writes.registry[Len(writes.registry)],
                 entries |-> <<>>]]
    /\ UNCHANGED <<registry, registryExists, running, last>>
    /\ RaceFrame

\* registerWorktree: const entries = await readRegistry()
RaceRegisterReads(w) ==
    /\ session[w].pc = "allocated"
    /\ session' = [session EXCEPT ![w].pc = "registering", ![w].entries = readRegistry]
    /\ UNCHANGED <<registry, registryExists, running, configToml, envFile, envBackup,
                   last>>
    /\ RaceFrame

\* registerWorktree: await writeRegistry(filtered); then supabaseStart
RaceRegisterWrites(w) ==
    /\ session[w].pc = "registering"
    /\ registry' = registerWorktree(session[w].entries, session[w].entry)
    /\ registryExists' = TRUE
    /\ running' = [running EXCEPT ![w] = TRUE]
    /\ session' = [session EXCEPT ![w].pc = "started"]
    /\ Returns("start")
    /\ UNCHANGED <<configToml, envFile, envBackup>>
    /\ RaceFrame

\* `sb-worktree stop --no-interactive` in w, nothing failing
RaceStops(w) ==
    /\ session[w].pc = "started"
    /\ StopCommand(w, FALSE, FALSE, TRUE, Len(loadConfig(w).envFiles))
    /\ session' = [session EXCEPT ![w] = NoInvocation]
    /\ UNCHANGED activeSessionRoot

RaceNext ==
    \E w \in Roots :
        \/ RaceAllocates(w)
        \/ RaceRegisterReads(w)
        \/ RaceRegisterWrites(w)
        \/ RaceStops(w)

SpecRace == RaceInit /\ [][RaceNext]_vars

recordOf(w) == SelectSeq(readRegistry, LAMBDA e : e.worktreePath = w)

\* C25: two start invocations with the same template and block size that
\* read the same allocated bases build entries with the same portBase, and registerWorktree writes the entry as it
\* was built: when the array it read holds the other invocation's entry, the
\* registry it writes holds two records with the same portBase (overlapping
\* ranges).
C25_SameSnapshotSameBase ==
    [][\A v, w \in Roots :
          (/\ v # w
           /\ session[w].pc = "registering" /\ session'[w].pc = "started"
           /\ session[v].pc \in {"allocated", "registering", "started"}
           /\ session[v].bases = session[w].bases
           /\ loadConfig(v).template = loadConfig(w).template
           /\ loadConfig(v).portBlockSize = loadConfig(w).portBlockSize)
          => /\ session[v].entry.portBase = session[w].entry.portBase
             /\ recordOf(w)' = <<session[w].entry>>
             /\ (\E i \in DOMAIN session[w].entries :
                      session[w].entries[i] = session[v].entry)
                   => /\ recordOf(v)' = <<session[v].entry>>
                      /\ recordOf(v)'[1].portBase = recordOf(w)'[1].portBase]_vars

\* C25 witness: both invocations have registered, both records are in the
\* registry and they have the same portBase
C25_Witness ==
    /\ \A w \in Roots : session[w].pc = "started"
    /\ session["/repo/main"].bases = session["/repo/wt-a"].bases
    /\ Len(registry) = 2
    /\ registry[1].portBase = registry[2].portBase
    /\ registry[1].worktreePath # registry[2].worktreePath

-----------------------------------------------------------------------------
(* SpecPorts: extractPorts and buildPortMap applied to bounded template     *)
(* texts and new bases                                                      *)

MaxTemplateLines == 3

\* the lines the templates are made of: section headers, port assignments
\* (one with a leading zero, one in capitals, one with a trailing comment),
\* an assignment that is no port, and a commented-out port
PortsLines ==
    { Section("api"), Section("db"),
      Assign("port", NumberToString(54321), ""),
      Assign("port", NumberToString(54322), "#"),
      Assign("shadow_port", NumberToString(54320), ""),
      Assign("PORT", <<"0", "8", "0">>, ""),
      Assign("max_rows", NumberToString(1000), ""),
      Text("# port = 54329") }

PortsNewBases == {80, 54320, 54321, 54420}

PortsInit ==
    /\ configIn \in [template : SeqsUpTo(PortsLines, MaxTemplateLines),
                     newBase : PortsNewBases]
    /\ configOut = [extracted |-> FALSE, built |-> FALSE, ports |-> <<>>,
                    portMap |-> <<>>]
    /\ AllocIdle /\ EnvIdle /\ IdIdle /\ DiskIdle

PortsFrame ==
    UNCHANGED <<allocIn, allocOut, configIn, envIn, envOut, idIn, idOut, diskVars, last>>

CallExtractPorts ==
    /\ ~configOut.extracted
    /\ configOut' = [configOut EXCEPT !.extracted = TRUE,
                                      !.ports = extractPorts(configIn.template)]
    /\ PortsFrame

CallBuildPortMap ==
    /\ configOut.extracted /\ ~configOut.built
    /\ configOut' = [configOut EXCEPT !.built = TRUE,
                                      !.portMap = buildPortMap(configOut.ports,
                                                               configIn.newBase)]
    /\ PortsFrame

PortsNext == CallExtractPorts \/ CallBuildPortMap

SpecPorts == PortsInit /\ [][PortsNext]_vars

\* the declared values of a template, with their multiplicity
DeclaredCount(template, v) ==
    Cardinality({i \in PortFields(template) : parseInt(template[i].value) = v})

ReturnedCount(ports, v) == Cardinality({i \in DOMAIN ports : ports[i].value = v})

\* C26: extractPorts returns the declared ports (each declaration once),
\* sorted ascending by value, with offset = value - minimum declared value,
\* and the empty list when no port is declared; buildPortMap then holds
\* String(value) -> String(newBase + offset) for every extracted port, the
\* ports that do not move included.
C26_PortsSortedWithOffsets ==
    /\ configOut.extracted =>
          LET ports == configOut.ports
              template == configIn.template
          IN /\ Len(ports) = Cardinality(PortFields(template))
             /\ \A i \in PortFields(template) :
                   ReturnedCount(ports, parseInt(template[i].value))
                      = DeclaredCount(template, parseInt(template[i].value))
             /\ \A i, j \in DOMAIN ports : i < j => ports[i].value <= ports[j].value
             /\ \A i \in DOMAIN ports :
                   ports[i].offset = ports[i].value - MinDeclared(template)
    /\ configOut.built =>
          /\ \A i \in DOMAIN configOut.ports :
                LET port == configOut.ports[i] IN
                /\ NumberToString(port.value) \in DOMAIN configOut.portMap
                /\ configOut.portMap[NumberToString(port.value)]
                      = NumberToString(configIn.newBase + port.offset)
          /\ Cardinality(DOMAIN configOut.portMap)
                = Cardinality({configOut.ports[i].value : i \in DOMAIN configOut.ports})

\* C26 witness: three ports declared out of order, the largest two above the
\* minimum, and a new base equal to the minimum, so that every entry of the
\* map is an identity entry
C26_Witness ==
    /\ configOut.built
    /\ Len(configOut.ports) = 3
    /\ parseInt(configIn.template[1].value) > parseInt(configIn.template[3].value)
    /\ configOut.ports[3].offset = 2
    /\ configIn.newBase = configOut.ports[1].value
    /\ configOut.portMap[NumberToString(54322)] = NumberToString(54322)

\* C26 witness of the empty case: no port declared, empty list
C26_WitnessEmpty ==
    /\ configOut.extracted
    /\ Len(configIn.template) = MaxTemplateLines
    /\ configOut.ports = <<>>

-----------------------------------------------------------------------------
(* SpecConfig: the ports of the allocation against its block *)

\* C27: every new port of the map built for an allocation lies in the
\* allocated block [newBase, newBase + blockSize) and is at most 65535.
C27_NewPortsInsideBlock ==
    (configOut.done /\ ~configOut.threw) =>
        \A old \in DOMAIN configOut.portMap :
            /\ configOut.newBase <= parseInt(configOut.portMap[old])
            /\ parseInt(configOut.portMap[old]) < configOut.newBase + configIn.blockSize
            /\ parseInt(configOut.portMap[old]) <= MAX_PORT

-----------------------------------------------------------------------------
(* Spec: the env files against the registry record after a start *)

\* the env files as they are before any start
PreStartEnv == (".env" :> EnvContentApi) @@ (".env.local" :> EnvContentDb)

\* where the <allow-listed host>:<digits> references of a text begin
RefPositions(s) ==
    {j \in 1..(Len(s) - 2) : s[j] \in HostSet /\ s[j + 1] = ":" /\ s[j + 2] \in DigitSet}

\* the port number of the reference that begins at j
RefPortAt(s, j) == LeadingDigits(SubSeq(s, j + 2, Len(s)))

\* every reference of w's configured env files that pointed at a template
\* port before the first start points at the port the record maps it to
EnvFollowsRecord(w) ==
    /\ Len(recordOf(w)) = 1
    /\ \A i \in DOMAIN loadConfig(w).envFiles :
          LET f == loadConfig(w).envFiles[i] IN
          \A j \in RefPositions(PreStartEnv[f]) :
              RefPortAt(PreStartEnv[f], j) \in DOMAIN recordOf(w)[1].portMap
                 => RefPortAt(envFile[w][f], j)
                       = recordOf(w)[1].portMap[RefPortAt(PreStartEnv[f], j)]

\* C28: a start that completes and writes w's record leaves w's env files
\* pointing at the ports of that record, also when it replaces an allocation
\* or follows a nuke.
C28_EnvAgreesWithRecord ==
    [][\A w \in Roots :
          (/\ last'.op = "start" /\ ~last'.threw
           /\ recordOf(w)' # recordOf(w))
          => EnvFollowsRecord(w)']_vars

-----------------------------------------------------------------------------
(* Spec: the env files of a worktree whose record is removed *)

\* w has no env backup and its env files hold their pre-start content
EnvAsBeforeStart(w) ==
    /\ \A f \in DOMAIN envBackup[w] : ~envBackup[w][f].exists
    /\ envFile[w] = PreStartEnv

\* C29: a command that completes and removes the record of an existing
\* worktree leaves that worktree without env backups and with its env files
\* at their pre-start content.
C29_RecordRemovedEnvRestored ==
    [][\A w \in Roots :
          (/\ ~last'.threw
           /\ pathExists'[w]
           /\ recordOf(w) # <<>> /\ recordOf(w)' = <<>>)
          => EnvAsBeforeStart(w)']_vars

====
